---- MODULE Spec2Model ----
(***************************************************************************)
(* Session/attribution core of the conversational commerce agent:          *)
(*   - SessionContext / ContextManager   (agent/session_context.py)        *)
(*   - verify_shopify_webhook, handle_order_create_webhook                 *)
(*                                        (analytics/webhook_handler.py)   *)
(*   - extract_attribution_from_order     (analytics/cart_attribution.py)  *)
(*   - TrackingService                    (analytics/tracking_service.py)  *)
(* Strings that the code concatenates or compares character by character   *)
(* are sequences of characters; time is an integer number of hours.        *)
(***************************************************************************)
EXTENDS Integers, Sequences, FiniteSets, TLC

NoCall == [returned |-> FALSE]

VARIABLES
    clock,          \* datetime.utcnow(), in hours
    ctx,            \* one SessionContext used on its own
    turn_log,       \* history variable: every add_turn call made on ctx, in call order
    last_op,        \* history variable: name of the last mutator applied to ctx
    mutated_at,     \* history variable: {clock of the last mutator call on ctx}, {} before any
    n_ops,          \* history variable: number of mutator calls made on ctx
    vcall,          \* one call of verify_shopify_webhook: its arguments and its result
    call_log,       \* history variable: the add_product_search / add_product_view calls on ctx
    frames,         \* each thread's position in a SessionContext method it runs on ctx
    tagging,        \* a cart input on its way through tagging, Shopify and extraction
    last_call,      \* history variable: the last call made on the registry, with its result
    wa,             \* the WhatsApp SessionManager: cache, files, sessions and its tasks
    sharing,        \* a context, its to_dict, the context restored from it, and their objects
    contexts,       \* ContextManager._contexts: key -> reference of a SessionContext
    heap,           \* the SessionContext objects ever constructed by the manager, by reference
    mgr_lock,       \* ContextManager._lock: the thread holding it, or None
    pc,             \* where each thread is in its ContextManager call
    local,          \* each thread's arguments, local variables and return values
    epoch,          \* history variable: how often each key was removed from the registry
    creations,      \* history variable: the contexts constructed, with key and epoch
    n_store_ops,    \* history variable: number of calls started on the store
    webhook_secret, \* os.getenv("SHOPIFY_WEBHOOK_SECRET"), an optional string
    users,          \* table users: the ids present
    conversations,  \* table conversations: id -> row
    orders,         \* table orders: the rows, in insertion order
    carts,          \* table carts: id -> row
    product_views,  \* table product_views: the rows, in insertion order
    response,       \* what the last order webhook request was answered
    handled,        \* history variable: number of order webhook requests handled
    request,        \* history variable: the last order webhook request, as authenticated
    redelivered,    \* history variable: order ids delivered again after their commit
    committed       \* history variable: order ids whose insert was committed

db_vars == <<users, conversations, orders, carts, product_views>>
webhook_vars == <<webhook_secret, db_vars, response, handled, request, redelivered, committed>>

store_vars == <<contexts, heap, mgr_lock, pc, local, epoch, creations, n_store_ops>>

ctx_vars == <<ctx, turn_log, last_op, mutated_at, n_ops>>

ext_vars == <<last_call, wa, sharing>>
aux_vars == <<call_log, frames, tagging, ext_vars>>

\* ------------------------------------------------------------------ bounds
MaxTurnsBound == 5      \* largest max_turns a context is constructed with
MaxCalls == 7           \* add_turn calls made on one context
MaxClock == 3           \* hours the clock may advance
MaxOps == 3             \* mutator calls on the single context of SpecContext
MaxBodyLen == 2         \* bytes of a request body given to verify_shopify_webhook alone
MaxStoreOps == 3        \* calls started on the ContextManager and its contexts
MaxDeliveries == 2      \* order webhook requests handled
MaxRecentCalls == 15    \* add_product_search and add_product_view calls on one context

\* ------------------------------------------------------- program constants
DefaultMaxTurns == 5
SearchCap == 3
ViewCap == 10
ResultLimit == 5
ContextTtlHours == 2

None == "None"

\* -------------------------------------------------------- python helpers
\* s[i:] of a Python list: i >= 0 drops the first i items, i < 0 keeps the
\* last -i items; both clamp to the list.  Note that s[-0:] is s[0:].
PySliceFrom(s, i) ==
    LET n == Len(s)
        start == IF i >= 0 THEN (IF i > n THEN n ELSE i)
                           ELSE (IF n + i < 0 THEN 0 ELSE n + i)
    IN  SubSeq(s, start + 1, n)

\* s[:k] of a Python list, k >= 0
PySliceTo(s, k) == SubSeq(s, 1, IF k > Len(s) THEN Len(s) ELSE k)

\* ------------------------------------------------------- SessionContext
\* metadata is the empty dict of a turn added without metadata
ContextEntry(role, message, timestamp) ==
    [role |-> role, message |-> message, timestamp |-> timestamp, metadata |-> {}]

SessionContext(user_id, session_id, max_turns, now) ==
    [user_id |-> user_id,
     session_id |-> session_id,
     conversation_history |-> <<>>,
     max_turns |-> max_turns,
     current_cart_id |-> None,
     recent_product_searches |-> <<>>,
     recent_products_viewed |-> <<>>,
     shipping_address |-> None,
     user_preferences |-> {},
     last_activity |-> now]

\* a window that keeps the oldest entries instead of the newest
TurnWindowKeepsOldest(history, max_turns) ==
    PySliceTo(history, max_turns * 2)

\* the window kept by add_turn: conversation_history[-max_messages:] when longer
TurnWindow(history, max_turns) ==
    LET max_messages == max_turns * 2
    IN  IF Len(history) > max_messages
        THEN PySliceFrom(history, 0 - max_messages)
        ELSE history

add_turn(c, user_message, assistant_response, now) ==
    LET h1 == Append(c.conversation_history, ContextEntry("user", user_message, now))
        h2 == Append(h1, ContextEntry("assistant", assistant_response, now))
    IN  [c EXCEPT !.conversation_history = TurnWindow(h2, c.max_turns),
                  !.last_activity = now]

\* a trim that keeps the first three searches instead of the last three
add_product_search_keeps_oldest(c, query, results, now) ==
    LET search_entry == [query |-> query,
                         results |-> PySliceTo(results, ResultLimit),
                         timestamp |-> now,
                         result_count |-> Len(results)]
    IN  [c EXCEPT !.recent_product_searches =
                      PySliceTo(Append(c.recent_product_searches, search_entry), SearchCap)]

add_product_search(c, query, results, now) ==
    LET search_entry == [query |-> query,
                         results |-> PySliceTo(results, ResultLimit),
                         timestamp |-> now,
                         result_count |-> Len(results)]
        s1 == Append(c.recent_product_searches, search_entry)
    IN  [c EXCEPT !.recent_product_searches =
                      IF Len(s1) > SearchCap THEN PySliceFrom(s1, 0 - SearchCap) ELSE s1]

add_product_view(c, product, now) ==
    LET view_entry == [product_id |-> product.id,
                       title |-> product.title,
                       price |-> product.price,
                       timestamp |-> now]
        v1 == Append(c.recent_products_viewed, view_entry)
    IN  [c EXCEPT !.recent_products_viewed =
                      IF Len(v1) > ViewCap THEN PySliceFrom(v1, 0 - ViewCap) ELSE v1]

update_cart(c, cart_id) == [c EXCEPT !.current_cart_id = cart_id]

update_shipping_address(c, address) == [c EXCEPT !.shipping_address = address]

\* dict.update: keys of the argument replace or extend the stored ones;
\* a preference dict is a set of <<key, value>> pairs with unique keys
update_preferences(c, preferences) ==
    LET keys == {p[1] : p \in preferences}
    IN  [c EXCEPT !.user_preferences =
                      {p \in c.user_preferences : p[1] \notin keys} \cup preferences]

\* a clear that leaves the cart id and the address
clear_keeping_cart(c) ==
    [c EXCEPT !.conversation_history = <<>>,
              !.recent_product_searches = <<>>,
              !.recent_products_viewed = <<>>,
              !.user_preferences = {}]

clear(c) ==
    [c EXCEPT !.conversation_history = <<>>,
              !.recent_product_searches = <<>>,
              !.recent_products_viewed = <<>>,
              !.current_cart_id = None,
              !.shipping_address = None,
              !.user_preferences = {}]

\* ------------------------------------------------- verify_shopify_webhook
\* A request body is a sequence of bytes, a secret is a sequence of
\* one-character strings, a header is an optional such sequence.
Absent == [present |-> FALSE, value |-> <<>>]
Some(v) == [present |-> TRUE, value |-> v]

ByteValues == 0..3
SecretChars == {"a", "b"}

\* str.encode('utf-8') on the characters a secret is made of
Utf8(secret) == [i \in 1..Len(secret) |-> IF secret[i] = "a" THEN 1 ELSE 2]

RECURSIVE Radix5(_)
Radix5(digits) ==
    IF digits = <<>> THEN 0
    ELSE Radix5(SubSeq(digits, 1, Len(digits) - 1)) * 5 + digits[Len(digits)]

\* hmac.new(key, data, sha256).digest(): HMAC-SHA256 idealised as a keyed digest
\* without collisions on the inputs of the model, three bytes wide
HmacSha256(key, data) ==
    LET n == Radix5([i \in 1..Len(key) |-> key[i] + 1] \o <<0>>
                    \o [i \in 1..Len(data) |-> data[i] + 1])
    IN  <<n \div 65536, (n \div 256) % 256, n % 256>>

Base64Alphabet ==
    <<"A","B","C","D","E","F","G","H","I","J","K","L","M","N","O","P",
      "Q","R","S","T","U","V","W","X","Y","Z","a","b","c","d","e","f",
      "g","h","i","j","k","l","m","n","o","p","q","r","s","t","u","v",
      "w","x","y","z","0","1","2","3","4","5","6","7","8","9","+","/">>

\* base64.b64encode(digest).decode() of a three-byte digest
b64encode(d) ==
    <<Base64Alphabet[(d[1] \div 4) + 1],
      Base64Alphabet[((d[1] % 4) * 16 + (d[2] \div 16)) + 1],
      Base64Alphabet[((d[2] % 16) * 4 + (d[3] \div 64)) + 1],
      Base64Alphabet[(d[3] % 64) + 1]>>

AsciiChars == {Base64Alphabet[i] : i \in 1..64} \cup {"=", "!"}

\* hmac.compare_digest(a, b) on str arguments: a TypeError for a non-str or a
\* non-ASCII argument, otherwise equality
CompareDigest(a, b) ==
    IF ~b.present THEN "TypeError"
    ELSE IF \E i \in 1..Len(b.value) : b.value[i] \notin AsciiChars THEN "TypeError"
    ELSE IF a = b.value THEN "equal" ELSE "different"

\* an except clause that accepts the request when the comparison raises
verify_accepts_on_error(data, hmac_header, secret) ==
    CompareDigest(b64encode(HmacSha256(Utf8(secret), data)), hmac_header)
        \in {"equal", "TypeError"}

verify_shopify_webhook(data, hmac_header, secret) ==
    LET computed_hmac == b64encode(HmacSha256(Utf8(secret), data))
        compared == CompareDigest(computed_hmac, hmac_header)
    IN  IF compared = "TypeError" THEN FALSE ELSE compared = "equal"

\* --------------------------------------------------------- ContextManager
Threads == {"t1", "t2"}

\* (user_id, session_id) pairs the callers use; ids are sequences of characters
IdPairs ==
    {<<<<"u">>, <<"s">>>>,
     <<<<"a", ":", "b">>, <<"c">>>>,
     <<<<"a">>, <<"b", ":", "c">>>>}

\* key = f"{user_id}:{session_id}"
ContextKey(user_id, session_id) == user_id \o <<":">> \o session_id

AllKeys == {ContextKey(p[1], p[2]) : p \in IdPairs}

NoLocals ==
    [op |-> "none", user_id |-> <<>>, session_id |-> <<>>, key |-> <<>>,
     found |-> FALSE, now |-> 0, stale_keys |-> {}, seen |-> <<>>,
     ret_ctx |-> 0, ret_bool |-> FALSE, ret_count |-> 0, ret_epoch |-> 0,
     overlapped |-> FALSE]

\* ContextManager.__init__, no call in progress
StoreEmpty ==
    /\ contexts = <<>>
    /\ heap = <<>>
    /\ mgr_lock = None
    /\ pc = [t \in Threads |-> "idle"]
    /\ local = [t \in Threads |-> NoLocals]
    /\ epoch = [k \in AllKeys |-> 0]
    /\ creations = {}
    /\ n_store_ops = 0

\* a lock that never excludes anybody
LockNeverHeld(t) == TRUE

\* with self._lock: the lock can be taken when no thread holds it
LockAvailable(t) == mgr_lock = None

\* dict with key k removed / set
DictWithout(dict, ks) == [k \in DOMAIN dict \ ks |-> dict[k]]
DictWith(dict, key, v) == [k \in DOMAIN dict \cup {key} |-> IF k = key THEN v ELSE dict[k]]

\* a staleness test that also expires an entry exactly TTL old
IsStaleAtTtl(c, now) == now - c.last_activity >= ContextTtlHours

\* the staleness test of the sweep: now - last_activity > ttl
IsStale(c, now) == now - c.last_activity > ContextTtlHours

\* ------------------------------------------------------ analytics store
OrderIds == {"o1", "o2"}
UserIds == {"u1", "u2"}

\* a fresh database, no webhook request handled yet
EmptyDatabase ==
    /\ users = {}
    /\ conversations = <<>>
    /\ orders = <<>>
    /\ carts = <<>>
    /\ product_views = <<>>

NoResponse == [status |-> 0, message |-> "none", order_id |-> None, calls |-> <<>>]

NoRequest == [endpoint |-> "none", header |-> "none", body |-> <<>>, commit_ok |-> FALSE]

WebhookIdle ==
    /\ webhook_secret = Absent
    /\ EmptyDatabase
    /\ response = NoResponse
    /\ handled = 0
    /\ request = NoRequest
    /\ redelivered = {}
    /\ committed = {}

\* no call made on the registry yet
NoLastCall ==
    [op |-> "none", n |-> 0, user_id |-> <<>>, session_id |-> <<>>,
     status |-> "none", ret_ctx |-> 0, ret_bool |-> FALSE, active_sessions |-> 0]

\* a SessionManager that has served nobody
NoTask == [pc |-> "idle", op |-> "none", phone_number |-> "none", session |-> 0, ret |-> 0]

NoSessions ==
    [sessions |-> <<>>, files |-> <<>>, objects |-> <<>>,
     tasks |-> [t \in {"t1", "t2"} |-> NoTask], n |-> 0]

\* nothing serialised yet
NoSharing ==
    [stage |-> "none", objects |-> <<>>, original |-> <<>>, restored |-> <<>>,
     n |-> 0, on |-> "none"]

ExtIdle ==
    /\ last_call = NoLastCall
    /\ wa = NoSessions
    /\ sharing = NoSharing

\* a thread that is in no SessionContext method
NoFrame == [op |-> "none", step |-> 0, entry |-> <<>>, sliced |-> <<>>, seen |-> <<>>]

\* no cart input built yet
NoTagging ==
    [stage |-> "none", cart_input |-> <<>>, calls |-> <<>>, tagged_once |-> <<>>,
     carrier |-> "none",
     order_data |-> <<>>, raised |-> None, attribution |-> <<>>]

AuxIdle ==
    /\ call_log = <<>>
    /\ frames = [t \in Threads |-> NoFrame]
    /\ tagging = NoTagging
    /\ ExtIdle

\* ------------------------------------------------------------ inputs
Messages == {"m1", "m2"}
Replies == {"r1"}

\* -------------------------------------------- SpecTurns: add_turn on one context
InitTurns ==
    /\ clock = 0
    /\ \E mt \in 0..MaxTurnsBound : ctx = SessionContext("u1", "s1", mt, 0)
    /\ turn_log = <<>>
    /\ last_op = None
    /\ mutated_at = {}
    /\ n_ops = 0
    /\ vcall = NoCall
    /\ StoreEmpty
    /\ AuxIdle
    /\ WebhookIdle

\* bookkeeping of one mutator call on ctx
Called(name) ==
    /\ last_op' = name
    /\ mutated_at' = {clock}
    /\ n_ops' = n_ops + 1
    /\ UNCHANGED <<clock, vcall, store_vars, webhook_vars, aux_vars>>

AddTurn ==
    /\ Len(turn_log) < MaxCalls
    /\ \E um \in Messages, ar \in Replies :
        /\ ctx' = add_turn(ctx, um, ar, clock)
        /\ turn_log' = Append(turn_log, <<um, ar, clock>>)
    /\ Called("add_turn")

vars == <<clock, ctx_vars, vcall, store_vars, webhook_vars, aux_vars>>

NextTurns == AddTurn

SpecTurns == InitTurns /\ [][NextTurns]_vars

Min(a, b) == IF a < b THEN a ELSE b

\* C5: for max_turns >= 1, after k add_turn calls conversation_history holds at
\* most 2 x max_turns entries, and exactly the user and assistant entries of the
\* last min(k, max_turns) calls, in call order.
C5_TurnWindow ==
    ctx.max_turns >= 1 =>
        LET k == Len(turn_log)
            m == Min(k, ctx.max_turns)
            h == ctx.conversation_history
        IN  /\ Len(h) <= 2 * ctx.max_turns
            /\ Len(h) = 2 * m
            /\ \A i \in 1..m :
                  LET call == turn_log[k - m + i]
                  IN  /\ h[2 * i - 1] = ContextEntry("user", call[1], call[3])
                      /\ h[2 * i] = ContextEntry("assistant", call[2], call[3])

\* the scenario of test_context_window_limit: max_turns = 5, 7 calls, turn 3 oldest,
\* with turn 3 distinguishable from turn 1
C5_Witness ==
    /\ ctx.max_turns = 5
    /\ Len(turn_log) = 7
    /\ Len(ctx.conversation_history) = 10
    /\ turn_log[1][1] # turn_log[3][1]
    /\ ctx.conversation_history[1].message = turn_log[3][1]

\* ------------------------------------ SpecContext: every mutator on one context
Queries == {"shoes"}
ResultLists == {<<>>, <<"p1", "p2">>}
Products == {[id |-> "p1", title |-> "Red shoe", price |-> 10]}
CartIds == {"cart_1"}
Addresses == {[city |-> "LA", province |-> "CA", country |-> "US"]}
PreferenceDicts == {{<<"size", "M">>}, {<<"size", "L">>, <<"color", "red">>}}

InitContext ==
    /\ clock = 0
    /\ \E max_turns \in {2, DefaultMaxTurns} : ctx = SessionContext("u1", "s1", max_turns, 0)
    /\ turn_log = <<>>
    /\ last_op = None
    /\ mutated_at = {}
    /\ n_ops = 0
    /\ vcall = NoCall
    /\ StoreEmpty
    /\ AuxIdle
    /\ WebhookIdle

Tick ==
    /\ clock < MaxClock
    /\ clock' = clock + 1

CtxTick == Tick /\ UNCHANGED <<ctx_vars, vcall, store_vars, webhook_vars, aux_vars>>

CtxAddTurn ==
    /\ n_ops < MaxOps
    /\ \E um \in Messages, ar \in Replies :
        /\ ctx' = add_turn(ctx, um, ar, clock)
        /\ turn_log' = Append(turn_log, <<um, ar, clock>>)
    /\ Called("add_turn")

CtxAddProductSearch ==
    /\ n_ops < MaxOps
    /\ \E q \in Queries, rs \in ResultLists : ctx' = add_product_search(ctx, q, rs, clock)
    /\ Called("add_product_search")
    /\ UNCHANGED turn_log

CtxAddProductView ==
    /\ n_ops < MaxOps
    /\ \E p \in Products : ctx' = add_product_view(ctx, p, clock)
    /\ Called("add_product_view")
    /\ UNCHANGED turn_log

CtxUpdateCart ==
    /\ n_ops < MaxOps
    /\ \E id \in CartIds : ctx' = update_cart(ctx, id)
    /\ Called("update_cart")
    /\ UNCHANGED turn_log

CtxUpdateShippingAddress ==
    /\ n_ops < MaxOps
    /\ \E a \in Addresses : ctx' = update_shipping_address(ctx, a)
    /\ Called("update_shipping_address")
    /\ UNCHANGED turn_log

CtxUpdatePreferences ==
    /\ n_ops < MaxOps
    /\ \E pr \in PreferenceDicts : ctx' = update_preferences(ctx, pr)
    /\ Called("update_preferences")
    /\ UNCHANGED turn_log

CtxClear ==
    /\ n_ops < MaxOps
    /\ ctx' = clear(ctx)
    /\ Called("clear")
    /\ UNCHANGED turn_log

NextContext ==
    \/ CtxTick
    \/ CtxAddTurn
    \/ CtxAddProductSearch
    \/ CtxAddProductView
    \/ CtxUpdateCart
    \/ CtxUpdateShippingAddress
    \/ CtxUpdatePreferences
    \/ CtxClear

SpecContext == InitContext /\ [][NextContext]_vars

\* C8: every mutation of a context sets last_activity to the time of that
\* mutation, so a context mutated within the TTL is not stale for the sweep.
C8_LastActivityTracksMutation ==
    \A t \in mutated_at :
        /\ ctx.last_activity = t
        /\ (clock - t <= ContextTtlHours => ~IsStale(ctx, clock))

\* ------------------------------- SpecVerify: verify_shopify_webhook on its own
RECURSIVE SeqsUpTo(_, _)
SeqsUpTo(S, n) ==
    IF n = 0 THEN {<<>>}
    ELSE LET shorter == SeqsUpTo(S, n - 1)
         IN  shorter \cup {Append(q, x) : q \in shorter, x \in S}

VerifyBodies == SeqsUpTo(ByteValues, MaxBodyLen)
VerifySecrets == {<<"a">>, <<"b">>, <<"a", "b">>}

\* the signature Shopify sends for a body under a secret
ShopifySignature(data, secret) == b64encode(HmacSha256(Utf8(secret), data))

\* headers a request may carry: none, a signature of any body under any secret,
\* a truncated signature, an empty one, one that is no base64, a non-ASCII one
VerifyHeaders ==
    {Absent, Some(<<>>), Some(<<"!", "!">>), Some(<<"A", "B", "C", "é">>)}
    \cup {Some(ShopifySignature(b, k)) : b \in VerifyBodies, k \in VerifySecrets}
    \cup {Some(SubSeq(ShopifySignature(b, k), 1, 3)) : b \in VerifyBodies, k \in VerifySecrets}

InitVerify ==
    /\ clock = 0
    /\ ctx = SessionContext("u1", "s1", DefaultMaxTurns, 0)
    /\ turn_log = <<>>
    /\ last_op = None
    /\ mutated_at = {}
    /\ n_ops = 0
    /\ StoreEmpty
    /\ AuxIdle
    /\ WebhookIdle
    /\ \E b \in VerifyBodies, h \in VerifyHeaders, k \in VerifySecrets :
         vcall = [data |-> b, hmac_header |-> h, secret |-> k,
                  returned |-> FALSE, result |-> FALSE]

Verify ==
    /\ ~vcall.returned
    /\ vcall' = [vcall EXCEPT !.returned = TRUE,
                              !.result = verify_shopify_webhook(vcall.data,
                                             vcall.hmac_header, vcall.secret)]
    /\ UNCHANGED <<clock, ctx_vars, store_vars, webhook_vars, aux_vars>>

NextVerify == Verify

SpecVerify == InitVerify /\ [][NextVerify]_vars

\* the bodies that differ from data in exactly one byte
OneByteChanged(data) ==
    {[data EXCEPT ![i] = x] : i \in 1..Len(data), x \in ByteValues} \ {data}

\* C9: verify_shopify_webhook returns a boolean for every input, true if and
\* only if the header is the base64 HMAC-SHA256 of the raw body under the
\* secret; the signature of a body is rejected for every body that differs
\* from it in one byte, and a missing or malformed header gives false.
C9_VerifyIffSignature ==
    vcall.returned =>
        /\ vcall.result \in BOOLEAN
        /\ vcall.result =
               (vcall.hmac_header = Some(ShopifySignature(vcall.data, vcall.secret)))
        /\ \A d2 \in OneByteChanged(vcall.data) :
               ~verify_shopify_webhook(d2, Some(ShopifySignature(vcall.data, vcall.secret)),
                                       vcall.secret)
        /\ (~vcall.hmac_header.present => ~vcall.result)

\* a correct signature was accepted for a body that has one-byte neighbours
C9_Witness ==
    /\ vcall.returned
    /\ vcall.result
    /\ Len(vcall.data) = MaxBodyLen
    /\ OneByteChanged(vcall.data) # {}

\* a non-ASCII header, on which the comparison raises, was answered false
C9_WitnessRaises ==
    /\ vcall.returned
    /\ ~vcall.result
    /\ vcall.hmac_header.present
    /\ CompareDigest(<<>>, vcall.hmac_header) = "TypeError"

\* ------------------------------------- Spec: threads calling the ContextManager
Init ==
    /\ clock = 0
    /\ ctx = SessionContext("u1", "s1", DefaultMaxTurns, 0)
    /\ turn_log = <<>>
    /\ last_op = None
    /\ mutated_at = {}
    /\ n_ops = 0
    /\ vcall = NoCall
    /\ StoreEmpty
    /\ AuxIdle
    /\ WebhookIdle

\* what no ContextManager call touches
StoreFrame == UNCHANGED <<ctx_vars, vcall, webhook_vars, aux_vars>>

\* a thread enters a ContextManager method with its arguments
Enter(t, op, user_id, session_id, now, label) ==
    /\ pc[t] = "idle"
    /\ n_store_ops < MaxStoreOps
    /\ n_store_ops' = n_store_ops + 1
    /\ pc' = [pc EXCEPT ![t] = label]
    /\ local' = [local EXCEPT ![t] =
                    [NoLocals EXCEPT !.op = op,
                                     !.user_id = user_id,
                                     !.session_id = session_id,
                                     !.key = ContextKey(user_id, session_id),
                                     !.now = now,
                                     !.ret_ctx = local[t].ret_ctx,
                                     !.overlapped =
                                         \E o \in Threads \ {t} :
                                             /\ pc[o] # "idle"
                                             /\ local[o].op = op
                                             /\ local[o].key = ContextKey(user_id, session_id)]]

\* ---- get_or_create_context
GetOrCreateCall(t) ==
    /\ \E p \in IdPairs : Enter(t, "get_or_create_context", p[1], p[2], 0, "goc_lock")
    /\ UNCHANGED <<clock, contexts, heap, mgr_lock, epoch, creations>>
    /\ StoreFrame

\* with self._lock:
GetOrCreateLock(t) ==
    /\ pc[t] = "goc_lock"
    /\ LockAvailable(t)
    /\ mgr_lock' = t
    /\ pc' = [pc EXCEPT ![t] = "goc_check"]
    /\ UNCHANGED <<clock, contexts, heap, local, epoch, creations, n_store_ops>>
    /\ StoreFrame

\* if key not in self._contexts
GetOrCreateCheck(t) ==
    /\ pc[t] = "goc_check"
    /\ local' = [local EXCEPT ![t].found = local[t].key \in DOMAIN contexts]
    /\ pc' = [pc EXCEPT ![t] = IF local[t].key \in DOMAIN contexts
                               THEN "goc_return" ELSE "goc_create"]
    /\ UNCHANGED <<clock, contexts, heap, mgr_lock, epoch, creations, n_store_ops>>
    /\ StoreFrame

\* self._contexts[key] = SessionContext(user_id=user_id, session_id=session_id)
GetOrCreateCreate(t) ==
    /\ pc[t] = "goc_create"
    /\ heap' = Append(heap, SessionContext(local[t].user_id, local[t].session_id,
                                           DefaultMaxTurns, clock))
    /\ contexts' = DictWith(contexts, local[t].key, Len(heap) + 1)
    /\ creations' = creations \cup
           {[key |-> local[t].key, epoch |-> epoch[local[t].key], ref |-> Len(heap) + 1]}
    /\ pc' = [pc EXCEPT ![t] = "goc_return"]
    /\ UNCHANGED <<clock, mgr_lock, local, epoch, n_store_ops>>
    /\ StoreFrame

\* return self._contexts[key], leaving the with block (0: the lookup raised KeyError)
GetOrCreateReturn(t) ==
    /\ pc[t] = "goc_return"
    /\ local' = [local EXCEPT ![t].ret_ctx = IF local[t].key \in DOMAIN contexts
                                             THEN contexts[local[t].key] ELSE 0,
                              ![t].ret_epoch = epoch[local[t].key],
                              ![t].found = FALSE]
    /\ mgr_lock' = None
    /\ pc' = [pc EXCEPT ![t] = "idle"]
    /\ UNCHANGED <<clock, contexts, heap, epoch, creations, n_store_ops>>
    /\ StoreFrame

\* a call that runs entirely inside "with self._lock" starts when the lock is free
EnterLocked(t) ==
    /\ pc[t] = "idle"
    /\ n_store_ops < MaxStoreOps
    /\ LockAvailable(t)
    /\ n_store_ops' = n_store_ops + 1

\* ---- get_context: return self._contexts.get(key), under the lock
GetContext(t) ==
    /\ EnterLocked(t)
    /\ \E p \in IdPairs :
         LET key == ContextKey(p[1], p[2])
         IN  local' = [local EXCEPT ![t] =
                 [NoLocals EXCEPT !.op = "get_context",
                                  !.user_id = p[1],
                                  !.session_id = p[2],
                                  !.key = key,
                                  !.ret_ctx = IF key \in DOMAIN contexts
                                              THEN contexts[key] ELSE 0,
                                  !.ret_epoch = epoch[key]]]
    /\ UNCHANGED <<clock, contexts, heap, mgr_lock, pc, epoch, creations>>
    /\ StoreFrame

\* ---- delete_context: del self._contexts[key] if present, under the lock
DeleteContext(t) ==
    /\ EnterLocked(t)
    /\ \E p \in IdPairs :
         LET key == ContextKey(p[1], p[2])
             here == key \in DOMAIN contexts
         IN  /\ contexts' = IF here THEN DictWithout(contexts, {key}) ELSE contexts
             /\ epoch' = IF here THEN [epoch EXCEPT ![key] = @ + 1] ELSE epoch
             /\ local' = [local EXCEPT ![t] =
                    [NoLocals EXCEPT !.op = "delete_context",
                                     !.user_id = p[1],
                                     !.session_id = p[2],
                                     !.key = key,
                                     !.ret_ctx = local[t].ret_ctx,
                                     !.ret_bool = here]]
    /\ UNCHANGED <<clock, heap, mgr_lock, pc, creations>>
    /\ StoreFrame

\* ---- cleanup_stale_contexts
\* now = datetime.utcnow(); stale_keys = []
CleanupCall(t) ==
    /\ Enter(t, "cleanup_stale_contexts", <<>>, <<>>, clock, "sw_lock")
    /\ UNCHANGED <<clock, contexts, heap, mgr_lock, epoch, creations>>
    /\ StoreFrame

\* with self._lock: for key, context in self._contexts.items(): ...
\* stale_keys.append(key)   (seen: the last_activity the loop read for each key)
CleanupScan(t) ==
    /\ pc[t] = "sw_lock"
    /\ LockAvailable(t)
    /\ mgr_lock' = t
    /\ local' = [local EXCEPT
           ![t].stale_keys = {k \in DOMAIN contexts : IsStale(heap[contexts[k]], local[t].now)},
           ![t].seen = [k \in DOMAIN contexts |-> heap[contexts[k]].last_activity]]
    /\ pc' = [pc EXCEPT ![t] = "sw_delete"]
    /\ UNCHANGED <<clock, contexts, heap, epoch, creations, n_store_ops>>
    /\ StoreFrame

\* for key in stale_keys: del self._contexts[key]; return len(stale_keys)
CleanupDelete(t) ==
    /\ pc[t] = "sw_delete"
    /\ contexts' = DictWithout(contexts, local[t].stale_keys)
    /\ epoch' = [k \in AllKeys |-> IF k \in local[t].stale_keys /\ k \in DOMAIN contexts
                                   THEN epoch[k] + 1 ELSE epoch[k]]
    /\ local' = [local EXCEPT ![t].ret_count = Cardinality(local[t].stale_keys),
                              ![t].stale_keys = {},
                              ![t].seen = <<>>]
    /\ mgr_lock' = None
    /\ pc' = [pc EXCEPT ![t] = "idle"]
    /\ UNCHANGED <<clock, heap, creations, n_store_ops>>
    /\ StoreFrame

\* ---- traffic on a context the caller obtained from the manager: add_turn runs
\* under the context's own asyncio lock and has no await inside, so it is one
\* step; it does not take the manager's lock
ContextAddTurn(t) ==
    /\ pc[t] = "idle"
    /\ local[t].ret_ctx # 0
    /\ n_store_ops < MaxStoreOps
    /\ n_store_ops' = n_store_ops + 1
    /\ \E um \in {"m1"}, ar \in Replies :
         heap' = [heap EXCEPT ![local[t].ret_ctx] = add_turn(@, um, ar, clock)]
    /\ local' = [local EXCEPT ![t].op = "add_turn"]
    /\ UNCHANGED <<clock, contexts, mgr_lock, pc, epoch, creations>>
    /\ StoreFrame

StoreTick == Tick /\ UNCHANGED store_vars /\ StoreFrame

Next ==
    \/ StoreTick
    \/ \E t \in Threads :
         \/ GetOrCreateCall(t)
         \/ GetOrCreateLock(t)
         \/ GetOrCreateCheck(t)
         \/ GetOrCreateCreate(t)
         \/ GetOrCreateReturn(t)
         \/ GetContext(t)
         \/ DeleteContext(t)
         \/ CleanupCall(t)
         \/ CleanupScan(t)
         \/ CleanupDelete(t)
         \/ ContextAddTurn(t)

Spec == Init /\ [][Next]_vars

ReturnedGetOrCreate(t) ==
    pc[t] = "idle" /\ local[t].op = "get_or_create_context"

\* C4: concurrent get_or_create_context calls with the same (user_id,
\* session_id) all return the same SessionContext, and only one context is
\* constructed for a key while the key stays in the registry (an epoch of a
\* key ends when delete_context or the sweep removes it).
C4_OneContextPerKey ==
    /\ \A e1 \in creations, e2 \in creations :
         (e1.key = e2.key /\ e1.epoch = e2.epoch) => e1.ref = e2.ref
    /\ \A t1 \in Threads, t2 \in Threads :
         ( /\ ReturnedGetOrCreate(t1)
           /\ ReturnedGetOrCreate(t2)
           /\ local[t1].key = local[t2].key
           /\ local[t1].ret_epoch = local[t2].ret_epoch )
         => local[t1].ret_ctx = local[t2].ret_ctx
    /\ \A t \in Threads :
         (ReturnedGetOrCreate(t) /\ local[t].ret_epoch = epoch[local[t].key])
         => /\ local[t].key \in DOMAIN contexts
            /\ contexts[local[t].key] = local[t].ret_ctx
            /\ local[t].ret_ctx # 0

\* two calls for the same pair were in progress together and both returned
\* the one context constructed for the key
C4_Witness ==
    \E t1 \in Threads, t2 \in Threads :
        /\ t1 # t2
        /\ ReturnedGetOrCreate(t1)
        /\ ReturnedGetOrCreate(t2)
        /\ local[t2].overlapped
        /\ local[t1].user_id = local[t2].user_id
        /\ local[t1].session_id = local[t2].session_id
        /\ local[t1].ret_ctx = local[t2].ret_ctx
        /\ local[t1].ret_ctx # 0
        /\ Cardinality(creations) = 1

\* C6: the sweep removes exactly the entries whose last_activity, as the scan
\* read it, lies more than the TTL before the sweep's now (an entry exactly
\* TTL old stays), leaves the other entries of the registry and every context
\* as they are, and returns the number of entries removed.
C6_SweepRemovesExactlyStale ==
    [][\A t \in Threads :
         (pc[t] = "sw_delete" /\ pc'[t] = "idle") =>
            LET seen == local[t].seen
                expired == {k \in DOMAIN seen :
                               local[t].now - seen[k] > ContextTtlHours}
            IN  /\ DOMAIN seen = DOMAIN contexts
                /\ DOMAIN contexts' = DOMAIN contexts \ expired
                /\ \A k \in DOMAIN contexts' : contexts'[k] = contexts[k]
                /\ heap' = heap
                /\ local'[t].ret_count = Cardinality(expired)]_vars

\* a sweep has removed an entry and kept one that was exactly TTL old
C6_Witness ==
    \E t \in Threads :
        /\ pc[t] = "idle"
        /\ local[t].op = "cleanup_stale_contexts"
        /\ local[t].ret_count = 1
        /\ \E k \in DOMAIN contexts :
             local[t].now - heap[contexts[k]].last_activity = ContextTtlHours

\* C7: the sweep never removes a context whose last_activity is within the
\* TTL at the moment the sweep deletes entries.
C7_SweepSparesActive ==
    [][\A t \in Threads :
         (pc[t] = "sw_delete" /\ pc'[t] = "idle") =>
            \A k \in DOMAIN contexts :
                ~IsStale(heap[contexts[k]], clock) => k \in DOMAIN contexts']_vars

\* ------------------------------------------------- order webhook: wire format
\* A well-formed order body has five bytes: order id, conversation attribute,
\* user attribute, total price, cart token; anything else is no JSON document.
SessionIdOf(user_id) == IF user_id = "u1" THEN "whatsapp_u1" ELSE "whatsapp_u2"

WebhookBodies ==
    {<<i, cu[1], cu[2], i + 1, 1 - i>> :
        i \in 0..1, cu \in {<<0, 0>>, <<0, 1>>, <<1, 1>>, <<2, 2>>, <<1, 0>>, <<1, 2>>}}
    \cup {<<3>>}

\* json.loads(body): the order document, or JSONDecodeError
json_loads(body) ==
    IF Len(body) # 5 THEN [ok |-> FALSE]
    ELSE [ok |-> TRUE,
          data |->
            [id |-> IF body[1] = 0 THEN "o1" ELSE "o2",
             note_attributes |->
                (IF body[2] = 0 THEN <<>>
                 ELSE <<[name |-> "_agent_conversation_id",
                         value |-> SessionIdOf(IF body[2] = 1 THEN "u1" ELSE "u2")],
                        [name |-> "_agent_source", value |-> "behold_whatsapp_agent"]>>)
                \o (IF body[3] = 0 THEN <<>>
                    ELSE <<[name |-> "_agent_user_id",
                            value |-> IF body[3] = 1 THEN "u1" ELSE "u2"]>>),
             total_price |-> IF body[4] = 1 THEN 10 ELSE 25,
             cart_token |-> IF body[5] = 0 THEN None ELSE "k1",
             line_items |-> <<[product_id |-> "p1"]>>]]

\* f"gid://shopify/Cart/{cart_token}"
CartGid(cart_token) == IF cart_token = "k1" THEN "gid://shopify/Cart/k1" ELSE None

\* ------------------------------------------- extract_attribution_from_order
DictGet(dict, field, default) == IF field \in DOMAIN dict THEN dict[field] ELSE default

NoAttribution ==
    [conversation_id |-> None, user_id |-> None, source |-> None,
     timestamp |-> None, is_agent_attributed |-> FALSE]

RECURSIVE ScanAttributes(_, _)
ScanAttributes(all_attributes, attribution) ==
    IF all_attributes = <<>> THEN attribution
    ELSE LET attr == Head(all_attributes)
             key == DictGet(attr, "key", DictGet(attr, "name", ""))
             value == DictGet(attr, "value", "")
             next ==
                IF key = "_agent_conversation_id"
                THEN [attribution EXCEPT !.conversation_id = value,
                                         !.is_agent_attributed = TRUE]
                ELSE IF key = "_agent_user_id" THEN [attribution EXCEPT !.user_id = value]
                ELSE IF key = "_agent_source" THEN [attribution EXCEPT !.source = value]
                ELSE IF key = "_agent_timestamp" THEN [attribution EXCEPT !.timestamp = value]
                ELSE attribution
         IN  ScanAttributes(Tail(all_attributes), next)

\* an extraction that takes every order for one of the agent's
extract_attributing_every_order(order_data) ==
    [ScanAttributes(DictGet(order_data, "note_attributes", <<>>), NoAttribution)
        EXCEPT !.is_agent_attributed = TRUE]

\* an extraction that takes any reserved key for the mark of an agent order
extract_attributing_reserved_keys(order_data) ==
    LET scanned ==
            ScanAttributes(
                DictGet(order_data, "customAttributes",
                        DictGet(order_data, "custom_attributes", <<>>))
                \o DictGet(order_data, "noteAttributes",
                           DictGet(order_data, "note_attributes", <<>>)),
                NoAttribution)
    IN  [scanned EXCEPT !.is_agent_attributed =
            \/ scanned.conversation_id # None
            \/ scanned.user_id # None
            \/ scanned.source # None
            \/ scanned.timestamp # None]

extract_attribution_from_order(order_data) ==
    LET custom_attributes ==
            DictGet(order_data, "customAttributes",
                    DictGet(order_data, "custom_attributes", <<>>))
        note_attributes ==
            DictGet(order_data, "noteAttributes",
                    DictGet(order_data, "note_attributes", <<>>))
    IN  ScanAttributes(custom_attributes \o note_attributes, NoAttribution)

\* A JSON object is a record of its members that are not null, with the names
\* of its null members under "null_members".  A list entry that is no JSON
\* object (a string, a number, null) is the record [not_a_dict |-> TRUE].
NullMembers(json_object) == DictGet(json_object, "null_members", {})

HasMember(json_object, field) ==
    field \in DOMAIN json_object \/ field \in NullMembers(json_object)

\* order_data.get(first, order_data.get(second, [])) is None
SourceIsNull(order_data, first, second) ==
    IF HasMember(order_data, first) THEN first \in NullMembers(order_data)
    ELSE second \in NullMembers(order_data)

IsDict(entry) == "not_a_dict" \notin DOMAIN entry

\* the exception extract_attribution_from_order raises, or None: list(None) is
\* a TypeError, attr.get on an entry that is no dict an AttributeError
extract_raises(order_data) ==
    IF \/ SourceIsNull(order_data, "customAttributes", "custom_attributes")
       \/ SourceIsNull(order_data, "noteAttributes", "note_attributes")
    THEN "TypeError"
    ELSE LET all_attributes ==
                 DictGet(order_data, "customAttributes",
                         DictGet(order_data, "custom_attributes", <<>>))
                 \o DictGet(order_data, "noteAttributes",
                            DictGet(order_data, "note_attributes", <<>>))
         IN  IF \E i \in 1..Len(all_attributes) : ~IsDict(all_attributes[i])
             THEN "AttributeError"
             ELSE None

\* --------------------------------------------------------- TrackingService
\* a table orders without a primary key
NoPrimaryKey(rows, id) == FALSE

\* orders.id is the primary key: a second row with the id is refused
PrimaryKeyTaken(rows, id) == \E i \in 1..Len(rows) : rows[i].id = id

\* orders.conversation_id and orders.user_id are non-null foreign keys
ForeignKeysHold(conversation_id, user_id) ==
    /\ conversation_id \in DOMAIN conversations
    /\ user_id \in users

\* a version that adds the row and forgets the conversation's aggregates
record_order_without_aggregates(order_id, conversation_id, user_id, cart_id, total_amount, commit_ok) ==
    IF PrimaryKeyTaken(orders, order_id) \/ ~ForeignKeysHold(conversation_id, user_id)
       \/ ~commit_ok
    THEN [orders |-> orders, conversations |-> conversations, carts |-> carts,
          persisted |-> FALSE, raised |-> FALSE]
    ELSE [orders |-> Append(orders, [id |-> order_id, conversation_id |-> conversation_id,
                                     user_id |-> user_id, cart_id |-> cart_id,
                                     total_amount |-> total_amount]),
          conversations |-> conversations, carts |-> carts,
          persisted |-> TRUE, raised |-> FALSE]

\* record_order_completion: one transaction that adds the order row, updates
\* the conversation and the cart and commits; when the commit raises (the id
\* is taken, a foreign key is missing, or the database fails: commit_ok false)
\* it rolls back, logs, and returns normally
record_order_completion(order_id, conversation_id, user_id, cart_id, total_amount, commit_ok) ==
    LET order == [id |-> order_id, conversation_id |-> conversation_id,
                  user_id |-> user_id, cart_id |-> cart_id,
                  total_amount |-> total_amount]
        conversations2 ==
            IF conversation_id \in DOMAIN conversations
            THEN [conversations EXCEPT ![conversation_id].order_completed = TRUE,
                                       ![conversation_id].total_revenue = @ + total_amount]
            ELSE conversations
        carts2 ==
            IF cart_id # None /\ cart_id \in DOMAIN carts
            THEN [carts EXCEPT ![cart_id].converted_to_order = TRUE,
                               ![cart_id].order_id = order_id]
            ELSE carts
        commit_raises ==
            \/ PrimaryKeyTaken(orders, order_id)
            \/ ~ForeignKeysHold(conversation_id, user_id)
            \/ ~commit_ok
    IN  IF commit_raises
        THEN [orders |-> orders, conversations |-> conversations, carts |-> carts,
              persisted |-> FALSE, raised |-> FALSE]
        ELSE [orders |-> Append(orders, order), conversations |-> conversations2,
              carts |-> carts2, persisted |-> TRUE, raised |-> FALSE]

\* mark_product_purchased: every view of the product in the conversation gets
\* purchased = True; a failing commit is rolled back and logged
mark_product_purchased(views, conversation_id, product_id, mark_ok) ==
    IF ~mark_ok THEN views
    ELSE [i \in 1..Len(views) |->
            IF views[i].conversation_id = conversation_id /\ views[i].product_id = product_id
            THEN [views[i] EXCEPT !.purchased = TRUE]
            ELSE views[i]]

RECURSIVE MarkPurchased(_, _, _, _)
MarkPurchased(views, conversation_id, line_items, mark_ok) ==
    IF line_items = <<>> THEN views
    ELSE MarkPurchased(
            IF Head(line_items).product_id # None
            THEN mark_product_purchased(views, conversation_id,
                                        Head(line_items).product_id, mark_ok)
            ELSE views,
            conversation_id, Tail(line_items), mark_ok)

\* ------------------------------------------- handle_order_create_webhook
\* a check that lets every request with a signature header through
SignatureRejectedOnlyIfMissing(body, hmac_header, secret) ==
    ~hmac_header.present \/ hmac_header.value = <<>>

\* if not x_shopify_hmac_sha256: ...  if not verify_shopify_webhook(...): ...
SignatureRejected(body, hmac_header, secret) ==
    \/ ~hmac_header.present
    \/ hmac_header.value = <<>>
    \/ ~verify_shopify_webhook(body, hmac_header, secret)

\* a check that takes any value of the environment variable for a secret
SecretNeverMissing(secret) == FALSE

\* if not webhook_secret: the variable is unset or empty
SecretMissing(secret) == ~secret.present \/ secret.value = <<>>

\* the calls made on the body once both checks of the signature have passed
Verified(calls) == <<"verify_shopify_webhook">> \o calls

\* the calls made when the request is refused for its signature: none when the
\* header is missing, the comparison when it is there
RefusedCalls(hmac_header) ==
    IF ~hmac_header.present \/ hmac_header.value = <<>> THEN <<>>
    ELSE <<"verify_shopify_webhook">>

\* the except clauses of the handler: JSONDecodeError becomes 400, every other
\* exception raised in the try block, HTTPException included, becomes 500
ExceptClauses(exception, calls) ==
    IF exception = "JSONDecodeError"
    THEN [status |-> 400, message |-> "Invalid JSON", order_id |-> None, calls |-> calls]
    ELSE [status |-> 500, message |-> "Internal server error", order_id |-> None,
          calls |-> calls]

\* the handler from request to response: the response and the tables after it
handle_order_create_webhook(body, hmac_header, commit_ok, mark_ok) ==
    LET same(resp) == [response |-> resp, orders |-> orders,
                       conversations |-> conversations, carts |-> carts,
                       product_views |-> product_views, persisted |-> FALSE,
                       recorded_for |-> None]
    IN  IF SecretMissing(webhook_secret)
        THEN same(ExceptClauses("HTTPException 500", <<>>))
        ELSE IF SignatureRejected(body, hmac_header, webhook_secret.value)
        THEN same(ExceptClauses("HTTPException 401", RefusedCalls(hmac_header)))
        ELSE IF ~json_loads(body).ok
        THEN same(ExceptClauses("JSONDecodeError", Verified(<<"json.loads">>)))
        ELSE IF extract_raises(json_loads(body).data) # None
        THEN same(ExceptClauses(extract_raises(json_loads(body).data),
                                Verified(<<"json.loads", "extract_attribution_from_order">>)))
        ELSE
          LET order_data == json_loads(body).data
              attribution == extract_attribution_from_order(order_data)
          IN  IF ~attribution.is_agent_attributed
              THEN same([status |-> 200, message |-> "Order not attributed to agent",
                         order_id |-> None,
                         calls |-> Verified(<<"json.loads",
                                              "extract_attribution_from_order">>)])
              ELSE
                LET order_id == order_data.id
                    conversation_id == attribution.conversation_id
                    recorded == record_order_completion(
                                    order_id, conversation_id, attribution.user_id,
                                    CartGid(order_data.cart_token),
                                    order_data.total_price, commit_ok)
                IN  [response |->
                        [status |-> 200, message |-> "Order attributed to conversation",
                         order_id |-> order_id,
                         calls |-> Verified(<<"json.loads",
                                              "extract_attribution_from_order",
                                              "record_order_completion",
                                              "mark_product_purchased">>)],
                     orders |-> recorded.orders,
                     conversations |-> recorded.conversations,
                     carts |-> recorded.carts,
                     product_views |-> MarkPurchased(product_views, conversation_id,
                                                     order_data.line_items, mark_ok),
                     persisted |-> recorded.persisted,
                     recorded_for |-> order_id]

\* ------------------------------------------- handle_cart_create_webhook
\* the cart handler has one except clause: every exception becomes 500
CartExceptClauses(exception, calls) ==
    [status |-> 500, message |-> "Internal server error", order_id |-> None, calls |-> calls]

\* the cart handler from request to response; it writes to no table
handle_cart_create_webhook(body, hmac_header) ==
    IF SecretMissing(webhook_secret)
    THEN CartExceptClauses("HTTPException 500", <<>>)
    ELSE IF SignatureRejected(body, hmac_header, webhook_secret.value)
    THEN CartExceptClauses("HTTPException 401", RefusedCalls(hmac_header))
    ELSE IF ~json_loads(body).ok
    THEN CartExceptClauses("JSONDecodeError", Verified(<<"json.loads">>))
    ELSE [status |-> 200, message |-> "Cart webhook received", order_id |-> None,
          calls |-> Verified(<<"json.loads">>)]

\* --------------------------------- SpecWebhook: the analytics store and webhook
\* SHOPIFY_WEBHOOK_SECRET: unset, set to the empty string, set to "a"
WebhookSecrets == {Absent, Some(<<>>), Some(<<"a">>)}

\* bodies that also arrive from senders without the secret
UnsignedBodies == {<<0, 1, 1, 1, 1>>, <<3>>}

\* the requests that arrive: every body with Shopify's signature under the
\* secret "a"; some bodies with no header and with a signature made with
\* another secret
WebhookRequests ==
    {[body |-> b, hmac_header |-> Some(ShopifySignature(b, <<"a">>))] : b \in WebhookBodies}
    \cup {[body |-> b, hmac_header |-> Absent] : b \in UnsignedBodies}
    \cup {[body |-> b, hmac_header |-> Some(ShopifySignature(b, <<"b">>))] :
            b \in UnsignedBodies}

InitWebhook ==
    /\ clock = 0
    /\ ctx = SessionContext("u1", "s1", DefaultMaxTurns, 0)
    /\ turn_log = <<>>
    /\ last_op = None
    /\ mutated_at = {}
    /\ n_ops = 0
    /\ vcall = NoCall
    /\ StoreEmpty
    /\ AuxIdle
    /\ webhook_secret \in WebhookSecrets
    /\ EmptyDatabase
    /\ response = NoResponse
    /\ handled = 0
    /\ request = NoRequest
    /\ redelivered = {}
    /\ committed = {}

WebhookFrame == UNCHANGED <<clock, ctx_vars, vcall, store_vars, webhook_secret, aux_vars>>

\* process_whatsapp_message: get_or_create_user, then start_conversation with
\* conversation_id = session_id = f"whatsapp_{user_id}"
StartConversation(user_id) ==
    /\ SessionIdOf(user_id) \notin DOMAIN conversations
    /\ users' = users \cup {user_id}
    /\ conversations' = DictWith(conversations, SessionIdOf(user_id),
                                 [user_id |-> user_id, cart_created |-> FALSE,
                                  order_completed |-> FALSE, total_revenue |-> 0])
    /\ UNCHANGED <<orders, carts, product_views, response, handled, request, redelivered, committed>>
    /\ WebhookFrame

\* record_cart_creation: adds the cart row and flags the conversation; the
\* commit raises, and is rolled back, when the id is taken or the conversation
\* is missing
RecordCartCreation(cart_id, conversation_id) ==
    /\ cart_id \notin DOMAIN carts
    /\ conversation_id \in DOMAIN conversations
    /\ carts' = DictWith(carts, cart_id,
                         [conversation_id |-> conversation_id,
                          converted_to_order |-> FALSE, order_id |-> None])
    /\ conversations' = [conversations EXCEPT ![conversation_id].cart_created = TRUE]
    /\ UNCHANGED <<users, orders, product_views, response, handled, request, redelivered, committed>>
    /\ WebhookFrame

\* a verified body whose order is attributed to the agent
VerifiedAttributed(body, hmac_header) ==
    /\ webhook_secret.present
    /\ verify_shopify_webhook(body, hmac_header, webhook_secret.value)
    /\ json_loads(body).ok
    /\ extract_attribution_from_order(json_loads(body).data).is_agent_attributed

\* the request as the history records it: whether its header is missing, is
\* Shopify's signature of the body under the configured secret, or is anything
\* else; the body and the fate of the commit are kept for verified requests
Authenticated(body, hmac_header, commit_ok) ==
    IF ~hmac_header.present
    THEN [NoRequest EXCEPT !.endpoint = "orders/create", !.header = "missing"]
    ELSE IF /\ webhook_secret.present
            /\ hmac_header.value = ShopifySignature(body, webhook_secret.value)
    THEN [endpoint |-> "orders/create", header |-> "valid", body |-> body,
          commit_ok |-> commit_ok]
    ELSE [NoRequest EXCEPT !.endpoint = "orders/create", !.header = "forged"]

\* POST /webhooks/shopify/orders/create
HandleOrderCreateWebhook(body, hmac_header, commit_ok, mark_ok) ==
    /\ handled < MaxDeliveries
    /\ LET out == handle_order_create_webhook(body, hmac_header, commit_ok, mark_ok)
       IN  /\ response' = out.response
           /\ orders' = out.orders
           /\ conversations' = out.conversations
           /\ carts' = out.carts
           /\ product_views' = out.product_views
           /\ committed' = IF out.persisted THEN committed \cup {out.recorded_for}
                           ELSE committed
    /\ handled' = handled + 1
    /\ request' = Authenticated(body, hmac_header, commit_ok)
    /\ redelivered' = IF /\ VerifiedAttributed(body, hmac_header)
                         /\ json_loads(body).data.id \in committed
                      THEN redelivered \cup {json_loads(body).data.id}
                      ELSE redelivered
    /\ UNCHANGED users
    /\ WebhookFrame

\* the requests that arrive at the cart endpoint
CartRequests ==
    {r \in WebhookRequests : r.body \in UnsignedBodies}

\* POST /webhooks/shopify/carts/create
HandleCartCreateWebhook(body, hmac_header) ==
    /\ handled < MaxDeliveries
    /\ response' = handle_cart_create_webhook(body, hmac_header)
    /\ handled' = handled + 1
    /\ request' = [Authenticated(body, hmac_header, FALSE) EXCEPT !.endpoint = "carts/create"]
    /\ UNCHANGED <<db_vars, redelivered, committed>>
    /\ WebhookFrame

CartWebhook ==
    \E req \in CartRequests : HandleCartCreateWebhook(req.body, req.hmac_header)

OrderWebhook ==
    \E req \in WebhookRequests, commit_ok \in BOOLEAN, mark_ok \in BOOLEAN :
        HandleOrderCreateWebhook(req.body, req.hmac_header, commit_ok, mark_ok)

NextWebhook ==
    \/ \E u \in UserIds : StartConversation(u)
    \/ \E c \in {SessionIdOf(u) : u \in UserIds} :
         RecordCartCreation("gid://shopify/Cart/k1", c)
    \/ OrderWebhook
    \/ CartWebhook

SpecWebhook == InitWebhook /\ [][NextWebhook]_vars

\* ------------------------------------------------------------------ claims
RowsOf(order_id) == {i \in 1..Len(orders) : orders[i].id = order_id}

RECURSIVE SumTotals(_)
SumTotals(ids) ==
    IF ids = {} THEN 0
    ELSE LET o == CHOOSE x \in ids : TRUE
         IN  orders[CHOOSE i \in RowsOf(o) : TRUE].total_amount + SumTotals(ids \ {o})

\* the order ids persisted for a conversation
OrdersOf(conversation_id) ==
    {o \in OrderIds : \E i \in RowsOf(o) : orders[i].conversation_id = conversation_id}

C2_RejectedBeforeProcessing ==
    [][(handled' = handled + 1 /\ request'.header \in {"missing", "forged"})
        => (/\ response'.calls \in {<<>>, <<"verify_shopify_webhook">>}
            /\ UNCHANGED db_vars)]_vars

\* a forged request was refused while the tables held an order
C2_Witness ==
    /\ webhook_secret.present
    /\ request.header = "forged"
    /\ response.calls = <<"verify_shopify_webhook">>
    /\ orders # <<>>

\* C3: the handler answers success for an attributed order only if the order
\* was persisted; a failed commit reaches the caller as an error.
C3_FailureReachesCaller ==
    (response.status = 200 /\ response.order_id # None)
        => RowsOf(response.order_id) # {}

\* C10: a verified request carrying _agent_conversation_id = s and
\* _agent_user_id = u for an order id with no row yet, with conversation s and
\* user u on record and a commit that goes through, adds exactly the Order row
\* (id, s, u), sets order_completed on s and adds the total to total_revenue.
C10_FirstDeliveryRecorded ==
    [][\A s \in {SessionIdOf(x) : x \in UserIds}, u \in UserIds :
        LET order_data == json_loads(request'.body).data
            attribution == extract_attribution_from_order(order_data)
        IN  (/\ handled' = handled + 1
             /\ request'.header = "valid"
             /\ request'.commit_ok
             /\ json_loads(request'.body).ok
             /\ attribution.conversation_id = s
             /\ attribution.user_id = u
             /\ RowsOf(order_data.id) = {}
             /\ s \in DOMAIN conversations
             /\ u \in users)
            => (/\ Len(orders') = Len(orders) + 1
                /\ SubSeq(orders', 1, Len(orders)) = orders
                /\ orders'[Len(orders')].id = order_data.id
                /\ orders'[Len(orders')].conversation_id = s
                /\ orders'[Len(orders')].user_id = u
                /\ conversations'[s].order_completed
                /\ conversations'[s].total_revenue =
                      conversations[s].total_revenue + order_data.total_price)]_vars

\* the first delivery of an order went through: its row and the aggregates
C10_Witness ==
    /\ request.header = "valid"
    /\ request.commit_ok
    /\ response.order_id # None
    /\ redelivered = {}
    /\ Len(orders) = 1
    /\ orders[1].id = response.order_id
    /\ orders[1].conversation_id = "whatsapp_u1"
    /\ orders[1].user_id = "u1"
    /\ conversations["whatsapp_u1"].order_completed
    /\ conversations["whatsapp_u1"].total_revenue = orders[1].total_amount

\* a step of the order endpoint with the secret configured
OrderStep ==
    /\ handled' = handled + 1
    /\ request'.endpoint = "orders/create"
    /\ webhook_secret.present
    /\ webhook_secret.value # <<>>

\* C11: a verified order request whose body carries no attribution attribute
\* is answered success, "Order not attributed to agent", and leaves users,
\* conversations, orders, carts and product views as they were.
C11_UnattributedChangesNothing ==
    [][(/\ OrderStep
        /\ request'.header = "valid"
        /\ json_loads(request'.body).ok
        /\ json_loads(request'.body).data.note_attributes = <<>>)
        => (/\ response'.status = 200
            /\ response'.message = "Order not attributed to agent"
            /\ response'.order_id = None
            /\ UNCHANGED db_vars)]_vars

\* an order without attributes was answered while the tables held an order
C11_Witness ==
    /\ request.endpoint = "orders/create"
    /\ request.header = "valid"
    /\ json_loads(request.body).ok
    /\ json_loads(request.body).data.note_attributes = <<>>
    /\ response.message = "Order not attributed to agent"
    /\ orders # <<>>
    /\ \E c \in DOMAIN conversations : conversations[c].total_revenue > 0

\* C12: a verified attributed order whose id already has a row is answered
\* with a success that is not the answer given to a first delivery.
C12_DuplicateOutcome ==
    [][(/\ OrderStep
        /\ request'.header = "valid"
        /\ json_loads(request'.body).ok
        /\ extract_attribution_from_order(json_loads(request'.body).data).is_agent_attributed
        /\ RowsOf(json_loads(request'.body).data.id) # {})
        => (/\ response'.status = 200
            /\ response'.message # "Order attributed to conversation")]_vars

\* C13: on the order endpoint a missing or forged signature is answered 401
\* and a verified body that is no JSON document is answered 400.
C13_FailureClassesApart ==
    [][OrderStep
        => (/\ request'.header \in {"missing", "forged"} => response'.status = 401
            /\ (request'.header = "valid" /\ ~json_loads(request'.body).ok)
                  => response'.status = 400)]_vars

\* C14: while SHOPIFY_WEBHOOK_SECRET is unset or empty, every request to the
\* order and the cart endpoint is answered with an error before the signature
\* is compared or the body parsed, and leaves every table as it was.
C14_NoSecretNoService ==
    [][(/\ handled' = handled + 1
        /\ (~webhook_secret.present \/ webhook_secret.value = <<>>))
        => (/\ response'.status = 500
            /\ response'.calls = <<>>
            /\ UNCHANGED db_vars)]_vars

\* without a secret, an order request with a signature header was refused
C14_Witness ==
    /\ ~webhook_secret.present
    /\ handled > 0
    /\ request.endpoint = "orders/create"
    /\ request.header = "forged"
    /\ response.status = 500
    /\ response.calls = <<>>
    /\ conversations # <<>>

\* without a secret, a request to the cart endpoint was refused
C14_WitnessCart ==
    /\ webhook_secret = Some(<<>>)
    /\ request.endpoint = "carts/create"
    /\ response.status = 500
    /\ response.calls = <<>>

\* ---------------- SpecRecent: the recent searches and views of one context
InitRecent ==
    /\ clock = 0
    /\ ctx = SessionContext("u1", "s1", DefaultMaxTurns, 0)
    /\ turn_log = <<>>
    /\ last_op = None
    /\ mutated_at = {}
    /\ n_ops = 0
    /\ vcall = NoCall
    /\ StoreEmpty
    /\ AuxIdle
    /\ WebhookIdle

\* bookkeeping of one call: time moves on by one between calls, so that every
\* entry carries the number of its call as its timestamp
RecentCalled(name, entry) ==
    /\ n_ops < MaxRecentCalls
    /\ clock' = clock + 1
    /\ n_ops' = n_ops + 1
    /\ last_op' = name
    /\ call_log' = Append(call_log, [op |-> name, entry |-> entry, timestamp |-> clock + 1])
    /\ UNCHANGED <<turn_log, mutated_at, vcall, store_vars, webhook_vars, frames, tagging, ext_vars>>

RecentAddProductSearch ==
    \E q \in Queries :
        /\ ctx' = add_product_search(ctx, q, <<"p1", "p2">>, clock + 1)
        /\ RecentCalled("add_product_search", q)

RecentAddProductView ==
    \E p \in Products :
        /\ ctx' = add_product_view(ctx, p, clock + 1)
        /\ RecentCalled("add_product_view", p.id)

NextRecent ==
    \/ RecentAddProductSearch
    \/ RecentAddProductView

SpecRecent == InitRecent /\ [][NextRecent]_vars

\* the calls of one method, in call order
CallsOf(name) == SelectSeq(call_log, LAMBDA call : call.op = name)

\* kept holds the last Min(Len(calls), cap) calls, oldest first
KeepsMostRecent(kept, calls, cap, field) ==
    /\ Len(kept) = Min(Len(calls), cap)
    /\ \A i \in 1..Len(kept) :
          LET call == calls[Len(calls) - Len(kept) + i]
          IN  /\ kept[i].timestamp = call.timestamp
              /\ kept[i][field] = call.entry

\* C16: after any sequence of add_product_search and add_product_view calls
\* recent_product_searches holds at most 3 entries and recent_products_viewed
\* at most 10, and they are the entries of the most recent calls, in call order.
C16_RecentListsBounded ==
    /\ Len(ctx.recent_product_searches) <= 3
    /\ Len(ctx.recent_products_viewed) <= 10
    /\ KeepsMostRecent(ctx.recent_product_searches, CallsOf("add_product_search"), 3, "query")
    /\ KeepsMostRecent(ctx.recent_products_viewed, CallsOf("add_product_view"), 10,
                       "product_id")

\* both lists have dropped their oldest entry
C16_Witness ==
    /\ Len(CallsOf("add_product_search")) > 3
    /\ Len(CallsOf("add_product_view")) > 10
    /\ Len(ctx.recent_product_searches) = 3
    /\ Len(ctx.recent_products_viewed) = 10
    /\ ctx.recent_product_searches[1].timestamp > CallsOf("add_product_search")[1].timestamp
    /\ ctx.recent_products_viewed[1].timestamp > CallsOf("add_product_view")[1].timestamp

\* ------------------------------------------------ to_dict and from_dict
\* ContextEntry.to_dict: asdict(self)
ContextEntry_to_dict(entry) ==
    [role |-> entry.role, message |-> entry.message, timestamp |-> entry.timestamp,
     metadata |-> entry.metadata]

\* SessionContext.to_dict: nine keys, last_activity is not among them
to_dict(c) ==
    [user_id |-> c.user_id,
     session_id |-> c.session_id,
     conversation_history |->
        [i \in 1..Len(c.conversation_history) |->
            ContextEntry_to_dict(c.conversation_history[i])],
     max_turns |-> c.max_turns,
     current_cart_id |-> c.current_cart_id,
     recent_product_searches |-> c.recent_product_searches,
     recent_products_viewed |-> c.recent_products_viewed,
     shipping_address |-> c.shipping_address,
     user_preferences |-> c.user_preferences]

\* the body of from_dict after the constructor call: ContextEntry(**entry_data)
\* for every entry, then the shopping state with the defaults of data.get
Restored(context, data) ==
    LET history == DictGet(data, "conversation_history", <<>>)
    IN  [context EXCEPT
            !.conversation_history =
                [i \in 1..Len(history) |->
                    [ContextEntry(history[i].role, history[i].message, history[i].timestamp)
                        EXCEPT !.metadata = DictGet(history[i], "metadata", {})]],
            !.current_cart_id = DictGet(data, "current_cart_id", None),
            !.recent_product_searches = DictGet(data, "recent_product_searches", <<>>),
            !.recent_products_viewed = DictGet(data, "recent_products_viewed", <<>>),
            !.shipping_address = DictGet(data, "shipping_address", None),
            !.user_preferences = DictGet(data, "user_preferences", {})]

\* a from_dict that constructs every context with the default max_turns
from_dict_default_max_turns(data, now) ==
    Restored(SessionContext(data.user_id, data.session_id, DefaultMaxTurns, now), data)

\* SessionContext.from_dict; last_activity is the time of the call
from_dict(data, now) ==
    Restored(SessionContext(data.user_id, data.session_id,
                            DictGet(data, "max_turns", DefaultMaxTurns), now),
             data)

\* C17: for every reachable context c, from_dict(to_dict(c)) has the user_id,
\* session_id, max_turns, conversation_history, current_cart_id, recent
\* searches, recent product views, shipping address and preferences of c.
C17_RoundTrip ==
    LET restored == from_dict(to_dict(ctx), clock)
    IN  /\ restored.user_id = ctx.user_id
        /\ restored.session_id = ctx.session_id
        /\ restored.max_turns = ctx.max_turns
        /\ restored.conversation_history = ctx.conversation_history
        /\ restored.current_cart_id = ctx.current_cart_id
        /\ restored.recent_product_searches = ctx.recent_product_searches
        /\ restored.recent_products_viewed = ctx.recent_products_viewed
        /\ restored.shipping_address = ctx.shipping_address
        /\ restored.user_preferences = ctx.user_preferences

\* a context with a window other than the default, a turn, a search and a
\* preference, restored from its dict at a later time
C17_Witness ==
    /\ ctx.max_turns # DefaultMaxTurns
    /\ ctx.conversation_history # <<>>
    /\ ctx.recent_product_searches # <<>>
    /\ ctx.user_preferences # {}
    /\ clock > ctx.last_activity
    /\ from_dict(to_dict(ctx), clock).conversation_history = ctx.conversation_history
    /\ from_dict(to_dict(ctx), clock).last_activity # ctx.last_activity

\* ------------------------------------------------------- cart attribution
\* Specification SpecTagging: a cart input is tagged by
\* add_attribution_to_cart_input, Shopify turns the cart into an order that
\* carries the cart's attributes, and extract_attribution_from_order reads them.

\* how many times one cart input is tagged
MaxTagCalls == 2

\* values of session_metadata["timestamp"]: a str or an int
StrValue(s) == [str |-> s]
IntValue(n) == [int |-> n]

RECURSIVE Decimal(_)
Decimal(n) ==
    LET digit == <<"0", "1", "2", "3", "4", "5", "6", "7", "8", "9">>[(n % 10) + 1]
    IN  IF n < 10 THEN digit ELSE Decimal(n \div 10) \o digit

\* str(value)
PyStr(value) == IF "int" \in DOMAIN value THEN Decimal(value.int) ELSE value.str

\* `if session_metadata`: neither None nor an empty dict
Truthy(session_metadata) ==
    session_metadata.present /\ DOMAIN session_metadata.value # {}

\* a tagging that never writes the timestamp attribute
add_attribution_dropping_timestamp(cart_input, conversation_id, user_id, session_metadata) ==
    LET with_attributes ==
            IF "attributes" \in DOMAIN cart_input THEN cart_input
            ELSE cart_input @@ ("attributes" :> <<>>)
        attribution_attributes ==
            << [key |-> "_agent_conversation_id", value |-> conversation_id],
               [key |-> "_agent_user_id", value |-> user_id],
               [key |-> "_agent_source", value |-> "behold_whatsapp_agent"] >>
    IN  [with_attributes EXCEPT !["attributes"] = @ \o attribution_attributes]

add_attribution_to_cart_input(cart_input, conversation_id, user_id, session_metadata) ==
    LET with_attributes ==
            IF "attributes" \in DOMAIN cart_input THEN cart_input
            ELSE cart_input @@ ("attributes" :> <<>>)
        attribution_attributes ==
            << [key |-> "_agent_conversation_id", value |-> conversation_id],
               [key |-> "_agent_user_id", value |-> user_id],
               [key |-> "_agent_source", value |-> "behold_whatsapp_agent"] >>
            \o IF Truthy(session_metadata)
               THEN << [key |-> "_agent_timestamp",
                        value |-> PyStr(DictGet(session_metadata.value, "timestamp",
                                                StrValue("")))] >>
               ELSE <<>>
    IN  [with_attributes EXCEPT !["attributes"] = @ \o attribution_attributes]

CartInputs ==
    { [lines |-> "merchandise"],
      [lines |-> "merchandise", attributes |-> <<>>],
      [lines |-> "merchandise",
       attributes |-> <<[key |-> "gift_note", value |-> "yes"]>>] }

TagIds == {<<"s1", "u1">>, <<"s2", "u2">>}

SessionMetadatas ==
    { Absent, Some(<<>>), Some([timestamp |-> StrValue("t1")]),
      Some([timestamp |-> IntValue(17)]), Some([channel |-> StrValue("whatsapp")]) }

\* the member of the order that carries the cart's attributes
Carriers == {"customAttributes", "custom_attributes", "noteAttributes", "note_attributes"}

IsNoteCarrier(carrier) == carrier \in {"noteAttributes", "note_attributes"}

\* what the order's other attribute source is
OtherSources == {"absent", "empty", "null", "not_a_dict", "keyless"}

\* custom attributes are {key, value} entries, note attributes {name, value}
CarriedEntries(attributes, carrier) ==
    [i \in 1..Len(attributes) |->
        IF IsNoteCarrier(carrier)
        THEN [name |-> attributes[i].key, value |-> attributes[i].value]
        ELSE attributes[i]]

\* the order Shopify makes of the cart
OrderOfCart(cart_input, carrier, other) ==
    LET carried ==
            carrier :> CarriedEntries(DictGet(cart_input, "attributes", <<>>), carrier)
        other_member ==
            IF IsNoteCarrier(carrier) THEN "custom_attributes" ELSE "note_attributes"
    IN  CASE other = "absent" -> carried
          [] other = "empty" -> carried @@ (other_member :> <<>>)
          [] other = "null" -> carried @@ ("null_members" :> {other_member})
          [] other = "not_a_dict" -> carried @@ (other_member :> <<[not_a_dict |-> TRUE]>>)
          [] other = "keyless" -> carried @@ (other_member :> <<[value |-> "x"]>>)

InitTagging ==
    /\ clock = 0
    /\ ctx = SessionContext("u1", "s1", DefaultMaxTurns, 0)
    /\ turn_log = <<>>
    /\ last_op = None
    /\ mutated_at = {}
    /\ n_ops = 0
    /\ vcall = NoCall
    /\ StoreEmpty
    /\ WebhookIdle
    /\ call_log = <<>>
    /\ frames = [t \in Threads |-> NoFrame]
    /\ ExtIdle
    /\ \E cart_input \in CartInputs :
          tagging = [NoTagging EXCEPT !.stage = "input", !.cart_input = cart_input]

TaggingFrame ==
    UNCHANGED <<clock, ctx_vars, vcall, store_vars, webhook_vars, call_log, frames, ext_vars>>

AddAttribution ==
    /\ tagging.stage = "input"
    /\ Len(tagging.calls) < MaxTagCalls
    /\ \E ids \in TagIds, session_metadata \in SessionMetadatas :
          tagging' =
             [tagging EXCEPT
                !.cart_input =
                    add_attribution_to_cart_input(@, ids[1], ids[2], session_metadata),
                !.tagged_once =
                    IF tagging.calls = <<>>
                    THEN add_attribution_to_cart_input(tagging.cart_input, ids[1], ids[2],
                                                       session_metadata)
                    ELSE @,
                !.calls = Append(@, [conversation_id |-> ids[1], user_id |-> ids[2],
                                     session_metadata |-> session_metadata])]
    /\ TaggingFrame

ShopifyCheckout ==
    /\ tagging.stage = "input"
    /\ \E carrier \in Carriers, other \in OtherSources :
          tagging' =
             [tagging EXCEPT
                !.stage = "order",
                !.carrier = carrier,
                !.order_data = OrderOfCart(tagging.cart_input, carrier, other)]
    /\ TaggingFrame

ExtractAttribution ==
    /\ tagging.stage = "order"
    /\ tagging' =
          [tagging EXCEPT
             !.stage = "extracted",
             !.raised = extract_raises(tagging.order_data),
             !.attribution =
                 IF extract_raises(tagging.order_data) = None
                 THEN extract_attribution_from_order(tagging.order_data)
                 ELSE <<>>]
    /\ TaggingFrame

NextTagging == AddAttribution \/ ShopifyCheckout \/ ExtractAttribution

SpecTagging == InitTagging /\ [][NextTagging]_vars

\* C18: tagging a cart input that was tagged before leaves the attributes it
\* had after the first call: no reserved key a second time, no value replaced
C18_TaggingIdempotent ==
    tagging.calls # <<>> =>
        tagging.cart_input["attributes"] = tagging.tagged_once["attributes"]

C20_ExtractionNeverFails ==
    tagging.stage = "extracted" =>
        /\ tagging.raised = None
        /\ tagging.attribution =
               ScanAttributes(tagging.order_data[tagging.carrier], NoAttribution)

\* ------------------------------------------- concurrent calls on one context
\* Specification SpecMutators: two threads call add_product_search, clear and
\* the readers on one SessionContext.  Only add_turn takes the context's lock;
\* add_product_search and clear are plain methods, so their statements
\* interleave.  A reader is taken to read all it reads at one instant.

\* calls of add_product_search and clear made on the context
MaxMutatorCalls == 2

MutatorQueries == {"hats", "bags"}

\* search_entry of add_product_search
SearchEntry(query, results, now) ==
    [query |-> query, results |-> PySliceTo(results, ResultLimit),
     timestamp |-> now, result_count |-> Len(results)]

\* the context the threads share: one turn, a cart and three searches
SharedContext ==
    LET fresh == SessionContext("u1", "s1", DefaultMaxTurns, 0)
        searched ==
            add_product_search(
                add_product_search(
                    add_product_search(fresh, "shoes", <<>>, 0), "socks", <<>>, 0),
                "coats", <<>>, 0)
    IN  update_cart(add_turn(searched, "m1", "r1", 0), "cart_1")

\* what get_context_summary puts into its text, part by part (the messages of
\* the model are shorter than the 100 characters a message is cut to)
get_context_summary(c) ==
    LET history == c.conversation_history
        recent_turns ==
            [i \in 1..(Len(history) \div 2) |->
                <<history[2 * i - 1].message, history[2 * i].message>>]
        last_searches == PySliceFrom(c.recent_product_searches, 0 - 3)
        last_views == PySliceFrom(c.recent_products_viewed, 0 - 3)
    IN  [conversation |-> PySliceFrom(recent_turns, 0 - 3),
         cart |-> c.current_cart_id,
         searches |-> [i \in 1..Len(last_searches) |-> last_searches[i].query],
         products |-> [i \in 1..Len(last_views) |->
                          <<last_views[i].title, last_views[i].price>>],
         address |-> c.shipping_address,
         preferences |-> c.user_preferences]

\* ContextManager.get_stats of a manager that holds the one context
get_stats(c) ==
    [active_sessions |-> 1,
     total_messages |-> Len(c.conversation_history),
     active_carts |-> IF c.current_cart_id # None THEN 1 ELSE 0,
     ttl_hours |-> ContextTtlHours]

InitMutators ==
    /\ clock = 0
    /\ ctx = SharedContext
    /\ turn_log = <<>>
    /\ last_op = None
    /\ mutated_at = {}
    /\ n_ops = 0
    /\ vcall = NoCall
    /\ StoreEmpty
    /\ AuxIdle
    /\ WebhookIdle

MutatorsFrame ==
    UNCHANGED <<clock, turn_log, last_op, mutated_at, n_ops, vcall, store_vars,
                webhook_vars, tagging, ext_vars>>

Returned(t) == [frames EXCEPT ![t].op = "none", ![t].step = 0]

\* a thread enters add_product_search and builds search_entry
CallAddProductSearch(t) ==
    /\ frames[t].op = "none"
    /\ Len(call_log) < MaxMutatorCalls
    /\ \E query \in MutatorQueries, results \in {<<"p1">>} :
          /\ frames' = [frames EXCEPT ![t].op = "add_product_search",
                                      ![t].step = 1,
                                      ![t].entry = SearchEntry(query, results, clock)]
          /\ call_log' = Append(call_log, [op |-> "add_product_search",
                                           entry |-> [query |-> query, results |-> results],
                                           timestamp |-> clock])
    /\ UNCHANGED ctx
    /\ MutatorsFrame

\* self.recent_product_searches.append(search_entry)
SearchAppend(t) ==
    /\ frames[t].op = "add_product_search"
    /\ frames[t].step = 1
    /\ ctx' = [ctx EXCEPT !.recent_product_searches = Append(@, frames[t].entry)]
    /\ frames' = [frames EXCEPT ![t].step = 2]
    /\ UNCHANGED call_log
    /\ MutatorsFrame

\* if len(self.recent_product_searches) > 3
SearchTest(t) ==
    /\ frames[t].op = "add_product_search"
    /\ frames[t].step = 2
    /\ frames' = IF Len(ctx.recent_product_searches) > SearchCap
                 THEN [frames EXCEPT ![t].step = 3]
                 ELSE Returned(t)
    /\ UNCHANGED <<ctx, call_log>>
    /\ MutatorsFrame

\* the right-hand side self.recent_product_searches[-3:]
SearchSlice(t) ==
    /\ frames[t].op = "add_product_search"
    /\ frames[t].step = 3
    /\ frames' = [frames EXCEPT
                     ![t].step = 4,
                     ![t].sliced = PySliceFrom(ctx.recent_product_searches, 0 - SearchCap)]
    /\ UNCHANGED <<ctx, call_log>>
    /\ MutatorsFrame

\* the assignment self.recent_product_searches = ...
SearchRebind(t) ==
    /\ frames[t].op = "add_product_search"
    /\ frames[t].step = 4
    /\ ctx' = [ctx EXCEPT !.recent_product_searches = frames[t].sliced]
    /\ frames' = [Returned(t) EXCEPT ![t].sliced = <<>>]
    /\ UNCHANGED call_log
    /\ MutatorsFrame

CallClear(t) ==
    /\ frames[t].op = "none"
    /\ Len(call_log) < MaxMutatorCalls
    /\ frames' = [frames EXCEPT ![t].op = "clear", ![t].step = 1]
    /\ call_log' = Append(call_log, [op |-> "clear",
                                     entry |-> [query |-> None, results |-> <<>>],
                                     timestamp |-> clock])
    /\ UNCHANGED ctx
    /\ MutatorsFrame

\* the six statements of clear, one at a time
ClearStatement(t) ==
    /\ frames[t].op = "clear"
    /\ ctx' = CASE frames[t].step = 1 -> [ctx EXCEPT !.conversation_history = <<>>]
                [] frames[t].step = 2 -> [ctx EXCEPT !.recent_product_searches = <<>>]
                [] frames[t].step = 3 -> [ctx EXCEPT !.recent_products_viewed = <<>>]
                [] frames[t].step = 4 -> [ctx EXCEPT !.current_cart_id = None]
                [] frames[t].step = 5 -> [ctx EXCEPT !.shipping_address = None]
                [] frames[t].step = 6 -> [ctx EXCEPT !.user_preferences = {}]
    /\ frames' = IF frames[t].step = 6 THEN Returned(t)
                 ELSE [frames EXCEPT ![t].step = @ + 1]
    /\ UNCHANGED call_log
    /\ MutatorsFrame

\* a thread calls get_context_summary and get_stats; it keeps what they
\* returned and the calls that had been made by then
ReadContext(t) ==
    /\ frames[t].op = "none"
    /\ frames[t].seen = <<>>
    /\ frames' = [frames EXCEPT
                     ![t].seen = <<[summary |-> get_context_summary(ctx),
                                    stats |-> get_stats(ctx),
                                    started |-> call_log]>>]
    /\ UNCHANGED <<ctx, call_log>>
    /\ MutatorsFrame

NextMutators ==
    \E t \in Threads :
        \/ CallAddProductSearch(t)
        \/ SearchAppend(t)
        \/ SearchTest(t)
        \/ SearchSlice(t)
        \/ SearchRebind(t)
        \/ CallClear(t)
        \/ ClearStatement(t)
        \/ ReadContext(t)

SpecMutators == InitMutators /\ [][NextMutators]_vars

AllReturned == \A t \in Threads : frames[t].op = "none"

\* one call made alone
ApplyCall(c, call) ==
    IF call.op = "clear" THEN clear(c)
    ELSE add_product_search(c, call.entry.query, call.entry.results, call.timestamp)

\* the calls numbered by order, made one after the other
RECURSIVE ApplyCalls(_, _, _)
ApplyCalls(c, calls, order) ==
    IF order = <<>> THEN c
    ELSE ApplyCalls(ApplyCall(c, calls[Head(order)]), calls, Tail(order))

\* the ways to put some of n calls one after the other
SerialOrders(n) ==
    {order \in UNION {[1..k -> 1..n] : k \in 0..n} :
        \A i, j \in DOMAIN order : order[i] = order[j] => i = j}

ReadsAreSerial ==
    \A t \in Threads : \A i \in DOMAIN frames[t].seen :
        LET read == frames[t].seen[i]
        IN  \E order \in SerialOrders(Len(read.started)) :
               LET c == ApplyCalls(SharedContext, read.started, order)
               IN  /\ read.summary = get_context_summary(c)
                   /\ read.stats = get_stats(c)

FinalStateIsSerial ==
    AllReturned =>
        \E order \in SerialOrders(Len(call_log)) :
            /\ Len(order) = Len(call_log)
            /\ ctx = ApplyCalls(SharedContext, call_log, order)

\* C15: once every call has returned the context is what the calls made one
\* after the other, in some order, leave; and what a reader was given is what
\* it would be given between calls made one after the other
C15_MutatorsAtomic == FinalStateIsSerial /\ ReadsAreSerial

\* ------------------------------------------- the administration endpoints
\* Specification SpecAdmin: the endpoints of main.py that use the global
\* context_manager.  The endpoints are coroutines of one event loop and the
\* manager's methods never await, so each manager call is one step.

\* requests made to the endpoints
MaxAdminCalls == 4

AdminUsers == {<<"u", "1">>, <<"u", "2">>}

\* session_id = f"whatsapp_{user_id}"
AdminSessionId(user_id) == <<"whatsapp_">> \o user_id

\* ContextManager.get_context: the context of the pair, or None (0)
get_context(registry, user_id, session_id) ==
    IF ContextKey(user_id, session_id) \in DOMAIN registry
    THEN registry[ContextKey(user_id, session_id)]
    ELSE 0

\* ContextManager.delete_context: the registry it leaves
delete_context(registry, user_id, session_id) ==
    DictWithout(registry, {ContextKey(user_id, session_id)})

\* active_sessions of ContextManager.get_stats
active_sessions(registry) == Cardinality(DOMAIN registry)

InitAdmin ==
    /\ clock = 0
    /\ ctx = SessionContext("u1", "s1", DefaultMaxTurns, 0)
    /\ turn_log = <<>>
    /\ last_op = None
    /\ mutated_at = {}
    /\ n_ops = 0
    /\ vcall = NoCall
    /\ StoreEmpty
    /\ AuxIdle
    /\ WebhookIdle

AdminFrame ==
    UNCHANGED <<ctx_vars, vcall, mgr_lock, pc, local, epoch, creations, n_store_ops,
                webhook_vars, call_log, frames, tagging, wa, sharing>>

\* an endpoint was called and answered
Answered(op, user_id, status, ret_ctx, registry) ==
    /\ last_call.n < MaxAdminCalls
    /\ last_call' = [NoLastCall EXCEPT !.op = op,
                                       !.n = last_call.n + 1,
                                       !.user_id = user_id,
                                       !.session_id = AdminSessionId(user_id),
                                       !.status = status,
                                       !.ret_ctx = ret_ctx,
                                       !.active_sessions = active_sessions(registry)]

\* process_whatsapp_message: context_manager.get_or_create_context(user_id,
\* session_id)
ProcessWhatsappMessage ==
    \E user_id \in AdminUsers :
        LET key == ContextKey(user_id, AdminSessionId(user_id))
            found == key \in DOMAIN contexts
            ref == IF found THEN contexts[key] ELSE Len(heap) + 1
        IN  /\ contexts' = DictWith(contexts, key, ref)
            /\ heap' = IF found THEN heap
                       ELSE Append(heap, SessionContext(user_id, AdminSessionId(user_id),
                                                        DefaultMaxTurns, clock))
            /\ Answered("process_whatsapp_message", user_id, "success", ref, contexts')
            /\ UNCHANGED clock
            /\ AdminFrame

\* POST /clear-context/{user_id}
ClearContextEndpoint ==
    \E user_id \in AdminUsers :
        LET context == get_context(contexts, user_id, AdminSessionId(user_id))
        IN  /\ heap' = IF context # 0 THEN [heap EXCEPT ![context] = clear(@)] ELSE heap
            /\ Answered("clear_context", user_id,
                        IF context # 0 THEN "success" ELSE "not_found", context, contexts)
            /\ UNCHANGED <<clock, contexts>>
            /\ AdminFrame

\* GET /context/{user_id}
GetContextEndpoint ==
    \E user_id \in AdminUsers :
        LET context == get_context(contexts, user_id, AdminSessionId(user_id))
        IN  /\ Answered("get_context", user_id,
                        IF context # 0 THEN "success" ELSE "not_found", context, contexts)
            /\ UNCHANGED <<clock, contexts, heap>>
            /\ AdminFrame

\* GET /stats
StatsEndpoint ==
    /\ Answered("get_stats", <<>>, "success", 0, contexts)
    /\ UNCHANGED <<clock, contexts, heap>>
    /\ AdminFrame

\* POST /cleanup-contexts
CleanupEndpoint ==
    LET stale_keys == {k \in DOMAIN contexts : IsStale(heap[contexts[k]], clock)}
    IN  /\ contexts' = DictWithout(contexts, stale_keys)
        /\ Answered("cleanup_contexts", <<>>, "success", 0, contexts')
        /\ UNCHANGED <<clock, heap>>
        /\ AdminFrame

AdminTick == Tick /\ UNCHANGED <<contexts, heap, last_call>> /\ AdminFrame

NextAdmin ==
    \/ ProcessWhatsappMessage
    \/ ClearContextEndpoint
    \/ GetContextEndpoint
    \/ StatsEndpoint
    \/ CleanupEndpoint
    \/ AdminTick

SpecAdmin == InitAdmin /\ [][NextAdmin]_vars

\* C21: a successful clear-context removes the user's key from the registry:
\* get_context returns None for it afterwards and active_sessions is one less
C21_ClearContextDeletes ==
    [][(last_call'.n = last_call.n + 1 /\ last_call'.op = "clear_context"
          /\ last_call'.status = "success") =>
            /\ ContextKey(last_call'.user_id, last_call'.session_id) \notin DOMAIN contexts'
            /\ get_context(contexts', last_call'.user_id, last_call'.session_id) = 0
            /\ active_sessions(contexts') = active_sessions(contexts) - 1]_vars

\* C22: clear() empties the history, the searches, the product views and the
\* preferences, unsets the cart id and the address, and leaves user_id,
\* session_id and max_turns as they were
C22_ClearKeepsIdentity ==
    [][(n_ops' = n_ops + 1 /\ last_op' = "clear") =>
          /\ ctx'.conversation_history = <<>>
          /\ ctx'.recent_product_searches = <<>>
          /\ ctx'.recent_products_viewed = <<>>
          /\ ctx'.user_preferences = {}
          /\ ctx'.current_cart_id = None
          /\ ctx'.shipping_address = None
          /\ ctx'.user_id = ctx.user_id
          /\ ctx'.session_id = ctx.session_id
          /\ ctx'.max_turns = ctx.max_turns]_vars

\* a context constructed with max_turns 2 was cleared by its third call, after a turn
C22_Witness ==
    /\ last_op = "clear"
    /\ n_ops = 3
    /\ Len(turn_log) = 1
    /\ ctx.conversation_history = <<>>
    /\ ctx.current_cart_id = None
    /\ ctx.max_turns = 2
    /\ ctx.user_id = "u1"

\* ------------------------------------------- the registry and its contexts
\* Specification SpecRegistry: callers, one at a time, get, create and delete
\* contexts by (user_id, session_id) and call the mutators of a context they
\* were given.

\* calls made on the manager and on its contexts
MaxRegistryCalls == 4

\* a write that reaches every context there is
UpdateEveryContext(objects, ref, c) == [r \in DOMAIN objects |-> c]

\* a method of the context objects[ref] has left it as c
UpdateContext(objects, ref, c) == [objects EXCEPT ![ref] = c]

\* the mutators, each with one set of arguments
MutatorNames ==
    {"add_turn", "add_product_search", "add_product_view", "update_cart",
     "update_shipping_address", "update_preferences", "clear"}

Mutated(c, name, now) ==
    CASE name = "add_turn" -> add_turn(c, "m1", "r1", now)
      [] name = "add_product_search" -> add_product_search(c, "shoes", <<"p1", "p2">>, now)
      [] name = "add_product_view" ->
            add_product_view(c, [id |-> "p1", title |-> "Red shoe", price |-> 10], now)
      [] name = "update_cart" -> update_cart(c, "cart_1")
      [] name = "update_shipping_address" ->
            update_shipping_address(c, [city |-> "LA", province |-> "CA", country |-> "US"])
      [] name = "update_preferences" -> update_preferences(c, {<<"size", "M">>})
      [] name = "clear" -> clear(c)

InitRegistry ==
    /\ clock = 0
    /\ ctx = SessionContext("u1", "s1", DefaultMaxTurns, 0)
    /\ turn_log = <<>>
    /\ last_op = None
    /\ mutated_at = {}
    /\ n_ops = 0
    /\ vcall = NoCall
    /\ StoreEmpty
    /\ AuxIdle
    /\ WebhookIdle

RegistryFrame ==
    UNCHANGED <<clock, ctx_vars, vcall, mgr_lock, pc, local, epoch, creations,
                n_store_ops, webhook_vars, call_log, frames, tagging, wa, sharing>>

\* a call was made and has returned
RegistryCalled(op, user_id, session_id, ret_ctx, ret_bool) ==
    /\ last_call.n < MaxRegistryCalls
    /\ last_call' = [NoLastCall EXCEPT !.op = op,
                                       !.n = last_call.n + 1,
                                       !.user_id = user_id,
                                       !.session_id = session_id,
                                       !.ret_ctx = ret_ctx,
                                       !.ret_bool = ret_bool]

RegGetOrCreateContext ==
    \E p \in IdPairs :
        LET key == ContextKey(p[1], p[2])
            found == key \in DOMAIN contexts
            ref == IF found THEN contexts[key] ELSE Len(heap) + 1
        IN  /\ contexts' = DictWith(contexts, key, ref)
            /\ heap' = IF found THEN heap
                       ELSE Append(heap, SessionContext(p[1], p[2], DefaultMaxTurns, clock))
            /\ RegistryCalled("get_or_create_context", p[1], p[2], ref, FALSE)
            /\ RegistryFrame

RegGetContext ==
    \E p \in IdPairs :
        /\ RegistryCalled("get_context", p[1], p[2], get_context(contexts, p[1], p[2]), FALSE)
        /\ UNCHANGED <<contexts, heap>>
        /\ RegistryFrame

RegDeleteContext ==
    \E p \in IdPairs :
        /\ contexts' = delete_context(contexts, p[1], p[2])
        /\ RegistryCalled("delete_context", p[1], p[2], 0,
                          ContextKey(p[1], p[2]) \in DOMAIN contexts)
        /\ UNCHANGED heap
        /\ RegistryFrame

\* a mutator is called on a context the manager has handed out
RegMutate ==
    \E ref \in DOMAIN heap, name \in MutatorNames :
        /\ heap' = UpdateContext(heap, ref, Mutated(heap[ref], name, clock))
        /\ RegistryCalled(name, heap[ref].user_id, heap[ref].session_id, ref, FALSE)
        /\ UNCHANGED contexts
        /\ RegistryFrame

NextRegistry ==
    \/ RegGetOrCreateContext
    \/ RegGetContext
    \/ RegDeleteContext
    \/ RegMutate

SpecRegistry == InitRegistry /\ [][NextRegistry]_vars

C27_KeyInjective ==
    /\ (last_call.op \in {"get_or_create_context", "get_context"} /\ last_call.ret_ctx # 0) =>
          /\ heap[last_call.ret_ctx].user_id = last_call.user_id
          /\ heap[last_call.ret_ctx].session_id = last_call.session_id
    /\ (last_call.op = "delete_context" /\ last_call.ret_bool) =>
          \E ref \in DOMAIN heap :
              /\ heap[ref].user_id = last_call.user_id
              /\ heap[ref].session_id = last_call.session_id

\* ---------------------------------------------- whatsapp SessionManager
\* Specification SpecSessions: tasks of one event loop call get_session and
\* add_message_to_session.  A task runs alone from one await that suspends it
\* to the next: reading and writing a session file (aiofiles) suspend it, a
\* call that finds the session in the cache does not.

\* calls of get_session and add_message_to_session
MaxSessionCalls == 3

SessionTimeoutHours == 24
HistoryCap == 20

PhoneNumbers == {"+1", "+2"}

\* UserSession(phone_number, session_id, created_at, last_activity)
UserSession(phone_number, now) ==
    [phone_number |-> phone_number,
     session_id |-> <<"whatsapp", phone_number, now>>,
     created_at |-> now,
     last_activity |-> now,
     message_history |-> <<>>]

\* UserSession.add_message
add_message(session, message, now) ==
    LET appended == Append(session.message_history, message)
    IN  [session EXCEPT
            !.message_history =
                IF Len(appended) > HistoryCap THEN PySliceFrom(appended, 0 - HistoryCap)
                ELSE appended,
            !.last_activity = now]

\* datetime.utcnow() - session.last_activity < self.session_timeout
SessionValid(session, now) == now - session.last_activity < SessionTimeoutHours

\* task t has the session ref in hand.  get_session returns it;
\* add_message_to_session adds the message, puts the session into the cache
\* (update_session) and goes on to write the file
Got(w, t, ref) ==
    IF w.tasks[t].op = "get_session"
    THEN [w EXCEPT !.tasks[t].pc = "idle", !.tasks[t].session = ref, !.tasks[t].ret = ref]
    ELSE [w EXCEPT
            !.objects[ref] =
                add_message(@, [content |-> "hello", direction |-> "incoming",
                                type |-> "text", timestamp |-> clock], clock),
            !.sessions = DictWith(@, w.tasks[t].phone_number, ref),
            !.tasks[t].pc = "updating",
            !.tasks[t].session = ref]

InitSessions ==
    /\ clock = 0
    /\ ctx = SessionContext("u1", "s1", DefaultMaxTurns, 0)
    /\ turn_log = <<>>
    /\ last_op = None
    /\ mutated_at = {}
    /\ n_ops = 0
    /\ vcall = NoCall
    /\ StoreEmpty
    /\ AuxIdle
    /\ WebhookIdle

SessionsFrame ==
    UNCHANGED <<clock, ctx_vars, vcall, store_vars, webhook_vars, call_log, frames,
                tagging, last_call, sharing>>

\* get_session up to its first await: the cache is looked at
SessionCall(t) ==
    /\ wa.tasks[t].pc = "idle"
    /\ wa.n < MaxSessionCalls
    /\ \E op \in {"get_session", "add_message_to_session"}, phone_number \in PhoneNumbers :
          LET called == [wa EXCEPT !.n = @ + 1,
                                   !.tasks[t] = [NoTask EXCEPT !.op = op,
                                                               !.phone_number = phone_number]]
              cached == phone_number \in DOMAIN wa.sessions
          IN  wa' = IF cached /\ SessionValid(wa.objects[wa.sessions[phone_number]], clock)
                    THEN Got(called, t, wa.sessions[phone_number])
                    ELSE [called EXCEPT
                            !.sessions = DictWithout(@, {phone_number}),
                            !.tasks[t].pc = "loading"]
    /\ SessionsFrame

\* after await self._load_session_from_file: a valid file session is put into
\* the cache, otherwise a new session is created and put into the cache
SessionLoaded(t) ==
    /\ wa.tasks[t].pc = "loading"
    /\ LET phone_number == wa.tasks[t].phone_number
           ref == Len(wa.objects) + 1
           from_file == phone_number \in DOMAIN wa.files
                        /\ SessionValid(wa.files[phone_number], clock)
           cached == [wa EXCEPT
                        !.objects = Append(@, IF from_file THEN wa.files[phone_number]
                                              ELSE UserSession(phone_number, clock)),
                        !.sessions = DictWith(@, phone_number, ref),
                        !.tasks[t].session = ref]
       IN  wa' = IF from_file THEN Got(cached, t, ref)
                 ELSE [cached EXCEPT !.tasks[t].pc = "saving"]
    /\ SessionsFrame

\* after await self._save_session_to_file(session) in get_session
SessionSaved(t) ==
    /\ wa.tasks[t].pc = "saving"
    /\ wa' = Got([wa EXCEPT !.files = DictWith(@, wa.tasks[t].phone_number,
                                               wa.objects[wa.tasks[t].session])],
                 t, wa.tasks[t].session)
    /\ SessionsFrame

\* after await self._save_session_to_file(session) in update_session
SessionUpdated(t) ==
    /\ wa.tasks[t].pc = "updating"
    /\ wa' = [wa EXCEPT !.files = DictWith(@, wa.tasks[t].phone_number,
                                           wa.objects[wa.tasks[t].session]),
                        !.tasks[t].pc = "idle"]
    /\ SessionsFrame

NextSessions ==
    \E t \in Threads :
        \/ SessionCall(t)
        \/ SessionLoaded(t)
        \/ SessionSaved(t)
        \/ SessionUpdated(t)

SpecSessions == InitSessions /\ [][NextSessions]_vars

SessionsOf(phone_number) ==
    {ref \in DOMAIN wa.objects : wa.objects[ref].phone_number = phone_number}

\* C24: only one UserSession is ever made for a phone number, and the tasks
\* that asked for the session of that number hold the session that is in the
\* cache
C24_OneSessionPerPhone ==
    /\ \A phone_number \in PhoneNumbers : Cardinality(SessionsOf(phone_number)) <= 1
    /\ \A t \in Threads :
          (wa.tasks[t].session # 0 /\ wa.tasks[t].pc \in {"idle", "updating"}) =>
             /\ wa.tasks[t].phone_number \in DOMAIN wa.sessions
             /\ wa.sessions[wa.tasks[t].phone_number] = wa.tasks[t].session

\* C25: in the analytics store every conversation's total_revenue is the sum
\* of total_amount over the Order rows of that conversation, and its
\* order_completed flag is set exactly when it has such a row
C25_RevenueMatchesOrders ==
    \A c \in DOMAIN conversations :
        /\ conversations[c].total_revenue = SumTotals(OrdersOf(c))
        /\ conversations[c].order_completed <=> OrdersOf(c) # {}

\* one conversation has two orders and the sum of their totals, another
\* conversation has none and is not flagged
C25_Witness ==
    \E c1, c2 \in DOMAIN conversations :
        /\ Cardinality(OrdersOf(c1)) = 2
        /\ conversations[c1].total_revenue = 35
        /\ conversations[c1].order_completed
        /\ OrdersOf(c2) = {}
        /\ ~conversations[c2].order_completed
        /\ conversations[c2].total_revenue = 0

\* ------------------------------------------------- purchased product views
\* Specification SpecPurchases: the analytics store with product views in it.
\* The rows carry the columns the order webhook reads and writes.

\* rows of product_views
MaxViewRows == 1

\* record_product_view: adds the row; the commit raises, and is rolled back,
\* when the conversation is missing
RecordProductView(conversation_id, product_id) ==
    /\ Len(product_views) < MaxViewRows
    /\ conversation_id \in DOMAIN conversations
    /\ product_views' = Append(product_views,
                               [conversation_id |-> conversation_id,
                                product_id |-> product_id, purchased |-> FALSE])
    /\ UNCHANGED <<users, conversations, orders, carts, response, handled, request,
                   redelivered, committed>>
    /\ WebhookFrame

NextPurchases ==
    \/ \E u \in UserIds : StartConversation(u)
    \/ \E c \in {SessionIdOf(u) : u \in UserIds}, product_id \in {"p1", "p2"} :
         RecordProductView(c, product_id)
    \/ OrderWebhook

SpecPurchases == InitWebhook /\ [][NextPurchases]_vars

\* C26: a product view is marked purchased only when an order of its
\* conversation is persisted (every order of the model contains product p1)
C26_PurchasedHasOrder ==
    \A i \in 1..Len(product_views) :
        product_views[i].purchased =>
            /\ product_views[i].product_id = "p1"
            /\ \E j \in 1..Len(orders) :
                  orders[j].conversation_id = product_views[i].conversation_id

\* ------------------------------------------- a context and its restored copy
\* Specification SpecSharing: a context is serialised with to_dict and restored
\* with from_dict from that very dict.  The two lists and the preferences dict
\* of a context are objects: a context holds references to them, append, clear
\* and update change the object, an assignment makes the context refer to
\* another object.

\* mutator calls made on the two contexts
MaxSharingCalls == 3

SharingMutators ==
    {"add_product_search", "add_product_view", "update_shipping_address",
     "update_preferences", "clear"}

\* the context with the objects it refers to in place of the references
Deref(objects, c) ==
    [c EXCEPT !.recent_product_searches = objects[@],
              !.recent_products_viewed = objects[@],
              !.user_preferences = objects[@]]

\* a mutator called on context c: the objects and the context it leaves
InPlace(objects, c, name, now) ==
    CASE name = "add_product_search" ->
            LET appended == Append(objects[c.recent_product_searches],
                                   SearchEntry("shoes", <<"p1">>, now))
                objects1 == [objects EXCEPT ![c.recent_product_searches] = appended]
            IN  IF Len(appended) > SearchCap
                THEN [objects |-> Append(objects1, PySliceFrom(appended, 0 - SearchCap)),
                      context |-> [c EXCEPT !.recent_product_searches = Len(objects) + 1]]
                ELSE [objects |-> objects1, context |-> c]
      [] name = "add_product_view" ->
            LET appended == Append(objects[c.recent_products_viewed],
                                   [product_id |-> "p1", title |-> "Red shoe",
                                    price |-> 10, timestamp |-> now])
                objects1 == [objects EXCEPT ![c.recent_products_viewed] = appended]
            IN  IF Len(appended) > ViewCap
                THEN [objects |-> Append(objects1, PySliceFrom(appended, 0 - ViewCap)),
                      context |-> [c EXCEPT !.recent_products_viewed = Len(objects) + 1]]
                ELSE [objects |-> objects1, context |-> c]
      [] name = "update_shipping_address" ->
            [objects |-> objects,
             context |-> update_shipping_address(
                            c, [city |-> "LA", province |-> "CA", country |-> "US"])]
      [] name = "update_preferences" ->
            [objects |-> [objects EXCEPT ![c.user_preferences] =
                             update_preferences(Deref(objects, c),
                                                {<<"size", "M">>}).user_preferences],
             context |-> c]
      [] name = "clear" ->
            [objects |-> [objects EXCEPT ![c.recent_product_searches] = <<>>,
                                         ![c.recent_products_viewed] = <<>>,
                                         ![c.user_preferences] = {}],
             context |-> [c EXCEPT !.conversation_history = <<>>,
                                   !.current_cart_id = None,
                                   !.shipping_address = None]]

\* from_dict(to_dict(c)): the restored context refers to the lists and the
\* dict that to_dict put into the dict, which are those of c
RestoredSharing(objects, c, now) ==
    [from_dict(to_dict(Deref(objects, c)), now) EXCEPT
        !.recent_product_searches = c.recent_product_searches,
        !.recent_products_viewed = c.recent_products_viewed,
        !.user_preferences = c.user_preferences]

InitSharing ==
    /\ clock = 0
    /\ ctx = SessionContext("u1", "s1", DefaultMaxTurns, 0)
    /\ turn_log = <<>>
    /\ last_op = None
    /\ mutated_at = {}
    /\ n_ops = 0
    /\ vcall = NoCall
    /\ StoreEmpty
    /\ WebhookIdle
    /\ call_log = <<>>
    /\ frames = [t \in Threads |-> NoFrame]
    /\ tagging = NoTagging
    /\ last_call = NoLastCall
    /\ wa = NoSessions
    /\ sharing = [NoSharing EXCEPT
                     !.stage = "original",
                     !.objects = << <<>>, <<>>, {} >>,
                     !.original =
                        [add_turn(SessionContext("u1", "s1", DefaultMaxTurns, 0),
                                  "m1", "r1", 0)
                            EXCEPT !.recent_product_searches = 1,
                                   !.recent_products_viewed = 2,
                                   !.user_preferences = 3]]

SharingFrame ==
    UNCHANGED <<clock, ctx_vars, vcall, store_vars, webhook_vars, call_log, frames,
                tagging, last_call, wa>>

MutateOriginal ==
    /\ sharing.stage \in {"original", "restored"}
    /\ sharing.n < MaxSharingCalls
    /\ \E name \in SharingMutators :
          LET out == InPlace(sharing.objects, sharing.original, name, clock)
          IN  sharing' = [sharing EXCEPT !.objects = out.objects,
                                         !.original = out.context,
                                         !.n = @ + 1,
                                         !.on = "original"]
    /\ SharingFrame

RestoreFromDict ==
    /\ sharing.stage = "original"
    /\ sharing' = [sharing EXCEPT
                      !.stage = "restored",
                      !.restored = RestoredSharing(sharing.objects, sharing.original, clock),
                      !.on = "none"]
    /\ SharingFrame

MutateRestored ==
    /\ sharing.stage = "restored"
    /\ sharing.n < MaxSharingCalls
    /\ \E name \in SharingMutators :
          LET out == InPlace(sharing.objects, sharing.restored, name, clock)
          IN  sharing' = [sharing EXCEPT !.objects = out.objects,
                                         !.restored = out.context,
                                         !.n = @ + 1,
                                         !.on = "restored"]
    /\ SharingFrame

NextSharing == MutateOriginal \/ RestoreFromDict \/ MutateRestored

SpecSharing == InitSharing /\ [][NextSharing]_vars

\* C28: a mutator called on the restored context leaves the original as it
\* was, and a mutator called on the original leaves the restored context
C28_RestoredIndependent ==
    [][(sharing.stage = "restored" /\ sharing'.n = sharing.n + 1) =>
          /\ sharing'.on = "restored" =>
                Deref(sharing'.objects, sharing'.original)
                   = Deref(sharing.objects, sharing.original)
          /\ sharing'.on = "original" =>
                Deref(sharing'.objects, sharing'.restored)
                   = Deref(sharing.objects, sharing.restored)]_vars

\* ------------------------------------------------- a context of zero turns
\* C29: a context constructed with max_turns = 0 has an empty
\* conversation_history after every add_turn
C29_ZeroTurnsEmpty ==
    (ctx.max_turns = 0 /\ Len(turn_log) >= 1) => ctx.conversation_history = <<>>

\* ------------------------------------------- which orders are the agent's
\* key = attr.get("key", attr.get("name", ""))
AttrKey(attr) == DictGet(attr, "key", DictGet(attr, "name", ""))

HasConversationKey(all_attributes) ==
    \E i \in 1..Len(all_attributes) :
        AttrKey(all_attributes[i]) = "_agent_conversation_id"

\* the attribute under the member name Shopify uses on the other carrier
Renamed(attr, member) ==
    [m \in {member, "value"} |->
        IF m = "value" THEN attr.value ELSE AttrKey(attr)]

\* the documents that carry the attributes of an order on the custom list up
\* to entry k and on the note list from there, under either spelling of the
\* lists and either member name
Recarried(order_data) ==
    LET attributes == order_data.note_attributes
    IN  {[c \in {custom, note} |->
            IF c = custom
            THEN [i \in 1..k |-> Renamed(attributes[i], member)]
            ELSE [i \in 1..(Len(attributes) - k) |->
                     Renamed(attributes[k + i], member)]] :
            k \in 0..Len(attributes),
            custom \in {"customAttributes", "custom_attributes"},
            note \in {"noteAttributes", "note_attributes"},
            member \in {"key", "name"}}

\* C30: the extraction reports is_agent_attributed exactly when an attribute
\* of the merged custom and note lists has the key _agent_conversation_id,
\* wherever the attributes are carried; a verified order without that key,
\* whatever other reserved keys it has, is answered "Order not attributed to
\* agent" and leaves every table as it was.
C30_AttributedIffConversationKey ==
    [][(/\ OrderStep
        /\ request'.header = "valid"
        /\ json_loads(request'.body).ok)
        => LET order_data == json_loads(request'.body).data
           IN  /\ extract_attribution_from_order(order_data).is_agent_attributed
                    <=> HasConversationKey(order_data.note_attributes)
               /\ \A doc \in Recarried(order_data) :
                     extract_attribution_from_order(doc).is_agent_attributed
                        <=> HasConversationKey(order_data.note_attributes)
               /\ ~HasConversationKey(order_data.note_attributes) =>
                     /\ response'.status = 200
                     /\ response'.message = "Order not attributed to agent"
                     /\ UNCHANGED db_vars]_vars

\* an order whose only attribute is _agent_user_id, of a user with a
\* conversation and an order, was answered as not attributed
C30_Witness ==
    /\ request.endpoint = "orders/create"
    /\ request.header = "valid"
    /\ json_loads(request.body).ok
    /\ LET attributes == json_loads(request.body).data.note_attributes
       IN  /\ Len(attributes) = 1
           /\ attributes[1].name = "_agent_user_id"
           /\ \E c \in DOMAIN conversations :
                 /\ conversations[c].user_id = attributes[1].value
                 /\ conversations[c].total_revenue > 0
    /\ response.message = "Order not attributed to agent"
    /\ orders # <<>>

====
